---------------------------- MODULE Spec2Model ----------------------------
(***************************************************************************)
(* Model of the orchestrator gateway of SPM-INTEGRATED-SYSTEM              *)
(* (src/services/orchestrator): token handling, the organization           *)
(* isolation checks of the routers, the backend proxies and the dashboard  *)
(* aggregator.                                                             *)
(*                                                                         *)
(* Python values are modelled as follows.  A dict is a function whose      *)
(* domain is its key set, d.get(k) is Get(d, k); None is the string        *)
(* "None"; an HTTP response is its status code plus the fields a claim     *)
(* reads.  Every handler is one action and leaves its observation (the     *)
(* request it served and what it answered, returned and forwarded) in the  *)
(* variable last, so an invariant over last speaks about every handler     *)
(* execution.                                                              *)
(***************************************************************************)
EXTENDS Integers, Sequences, FiniteSets, TLC

VARIABLES
    users,          \* orchestrator table "users"          (database.py User)
    organizations,  \* orchestrator table "organizations"  (database.py Organization)
    now,            \* the clock, in days (datetime.utcnow())
    last,           \* observation of the last gateway request served
    call,           \* observation of the last proxy call / dashboard aggregation
    invitations,    \* orchestrator table "invitations"    (database.py Invitation)
    sup,            \* the supervisor of the backend child processes (main.py)
    backend_users   \* the users table of each backend, as its sync endpoint fills it

vars == <<users, organizations, now, last, call, invitations, sup, backend_users>>

-----------------------------------------------------------------------------
(* Bounds of the model *)

MaxDay == 1

\* the longest list a backend answers with (longer than every section's cut)
MaxItems == 6

-----------------------------------------------------------------------------
(* Python values *)

None == "None"

Get(d, k) == IF k \in DOMAIN d THEN d[k] ELSE None

Truthy(v) == v # None /\ v # ""

Roles == {"admin", "manager", "member"}

Emails == {"a@x.com", "b@x.com"}

Names == {"Ann"}

Passwords == {"pw1"}

UserIdPool == <<"u1", "u2">>

OrgIdPool == <<"o1", "o2">>

UserIds == {UserIdPool[i] : i \in DOMAIN UserIdPool}

Orgs == {OrgIdPool[i] : i \in DOMAIN OrgIdPool}

\* the four backends
Services == {"atlas", "workpulse", "epr", "labs"}

OrgOrNone == Orgs \cup {None}

-----------------------------------------------------------------------------
(* config_loader.py / config.py *)

JWT_SECRET == "your-secret-key-change-in-production"

JWT_EXPIRE_DAYS == 7

OtherSecret == "some-other-secret"

-----------------------------------------------------------------------------
(* auth/jwt_handler.py *)

\* jose.jwt.encode: the claims, signed with the key.  A datetime claim is
\* written as its timestamp.
jwt_encode(claims, key) == [form |-> "jws", sig |-> key, payload |-> claims]

\* create_access_token(data): data plus exp and iat, signed with the gateway secret.
create_access_token(data, today) ==
    jwt_encode([k \in DOMAIN data \cup {"exp", "iat"} |->
                   IF k = "exp" THEN today + JWT_EXPIRE_DAYS
                   ELSE IF k = "iat" THEN today
                   ELSE data[k]],
               JWT_SECRET)

TypeError == [raised |-> "TypeError"]

\* create_user_token(user_id, email, name, role="member"): args is the tuple of
\* positional arguments of the call.  Python binds at most four of them; a
\* fifth raises TypeError before the body runs.  The token data never holds
\* an organization_id.
create_user_token(args, today) ==
    IF Len(args) < 3 \/ Len(args) > 4
    THEN TypeError
    ELSE create_access_token(
             [sub   |-> args[1],
              email |-> args[2],
              name  |-> args[3],
              role  |-> IF Len(args) = 4 THEN args[4] ELSE "member"],
             today)

NoClaims == [absent |-> TRUE]

\* decode_token with the expiry check switched off (verify_exp: False)
decode_token_no_exp(token, today) ==
    IF token.form # "jws"
    THEN [status |-> 401, payload |-> NoClaims, why |-> "Malformed"]
    ELSE IF token.sig # JWT_SECRET
    THEN [status |-> 401, payload |-> NoClaims, why |-> "BadSignature"]
    ELSE [status |-> 200, payload |-> token.payload, why |-> "ok"]

\* jose.jwt.decode as decode_token runs it: a malformed token, a signature
\* made with another key and an exp in the past each raise JWTError, which
\* decode_token turns into 401.
decode_token(token, today) ==
    IF token.form # "jws"
    THEN [status |-> 401, payload |-> NoClaims, why |-> "Malformed"]
    ELSE IF token.sig # JWT_SECRET
    THEN [status |-> 401, payload |-> NoClaims, why |-> "BadSignature"]
    ELSE IF token.payload["exp"] < today
    THEN [status |-> 401, payload |-> NoClaims, why |-> "Expired"]
    ELSE [status |-> 200, payload |-> token.payload, why |-> "ok"]

\* get_current_user: the decoded payload, or 401 (also when it holds no sub).
get_current_user(token, today) ==
    LET d == decode_token(token, today) IN
    IF d.status # 200 THEN d
    ELSE IF Get(d.payload, "sub") = None
    THEN [status |-> 401, payload |-> NoClaims, why |-> "NoSub"]
    ELSE d


-----------------------------------------------------------------------------
(* Python values that cross the proxy boundary carry their type, so that   *)
(* isinstance(x, list) and isinstance(x, dict) can be modelled.            *)

Dict(d) == [t |-> "dict", v |-> d]

List(s) == [t |-> "list", v |-> s]

Exc(name) == [t |-> "exc", v |-> name]

NoBody == [t |-> "none", v |-> None]

\* x.get(k) of a value that came back from a proxy
DictGet(x, k) == IF x.t = "dict" THEN Get(x.v, k) ELSE None

-----------------------------------------------------------------------------
(* services/base_client.py *)

\* What the HTTP exchange of one proxy call ends in:
\*   json      a 2xx answer, body is the decoded JSON
\*   status    a non-2xx answer (raise_for_status raises HTTPStatusError)
\*   connect   httpx.ConnectError
\*   timeout   httpx.TimeoutException
\*   cancelled asyncio.CancelledError, a BaseException: "except Exception"
\*             does not catch it
Json(body) == [kind |-> "json", body |-> body]

HttpStatus(code) == [kind |-> "status", code |-> code]

ConnectError == [kind |-> "connect"]

TimeoutError == [kind |-> "timeout"]

Cancelled == [kind |-> "cancelled"]

ErrorText(outcome) ==
    IF outcome.kind = "status" THEN "HTTPStatusError"
    ELSE IF outcome.kind = "connect" THEN "ConnectError"
    ELSE "TimeoutException"

\* BaseServiceClient.get / put / delete: the JSON of a 2xx answer; any
\* Exception becomes {"error", "service", "endpoint"}.
BaseServiceClient_get(service_name, endpoint, outcome) ==
    IF outcome.kind = "json" THEN outcome.body
    ELSE IF outcome.kind = "cancelled" THEN Exc("CancelledError")
    ELSE Dict([error    |-> ErrorText(outcome),
               service  |-> service_name,
               endpoint |-> endpoint])

BaseServiceClient_put(service_name, endpoint, outcome) ==
    IF outcome.kind = "json" THEN outcome.body
    ELSE IF outcome.kind = "cancelled" THEN Exc("CancelledError")
    ELSE Dict([error    |-> ErrorText(outcome),
               service  |-> service_name,
               endpoint |-> endpoint])

BaseServiceClient_delete(service_name, endpoint, outcome) ==
    IF outcome.kind = "json" THEN outcome.body
    ELSE IF outcome.kind = "cancelled" THEN Exc("CancelledError")
    ELSE Dict([error    |-> ErrorText(outcome),
               service  |-> service_name,
               endpoint |-> endpoint])

\* BaseServiceClient.post: as get, plus the attempted url.
BaseServiceClient_post(service_name, endpoint, outcome) ==
    IF outcome.kind = "json" THEN outcome.body
    ELSE IF outcome.kind = "cancelled" THEN Exc("CancelledError")
    ELSE Dict([error         |-> ErrorText(outcome),
               service       |-> service_name,
               endpoint      |-> endpoint,
               attempted_url |-> endpoint])

\* "result if isinstance(result, list) else []" of the list-returning wrappers
ListOrEmpty(result) ==
    IF result.t = "list" THEN result
    ELSE IF result.t = "exc" THEN result
    ELSE List(<<>>)

-----------------------------------------------------------------------------
(* services/user_sync.py *)

\* What the POST of a sync call ends in: an answer with a status code (no
\* raise_for_status here), or an exception of the transport.
Answered(code) == [kind |-> "answered", code |-> code]

SyncAnswers == {Answered(200), Answered(201), Answered(500), ConnectError, TimeoutError}

\* _sync_to_atlas / _sync_to_workpulse / _sync_to_epr / _sync_to_labs:
\* status_code in [200, 201]; False on any Exception
sync_to(service, answer) ==
    answer.kind = "answered" /\ answer.code \in {200, 201}

\* a broadcast that ends at the first backend that fails: the map has the
\* entries made so far
sync_user_to_all_services_stopping(user_data, answers) ==
    LET order == <<"atlas", "workpulse", "epr", "labs">>
        reached == {i \in 1..4 : \A j \in 1..(i - 1) : sync_to(order[j], answers[order[j]])}
    IN  [s \in {order[i] : i \in reached} |-> sync_to(s, answers[s])]

\* sync_user_to_all_services: the four calls one after the other, each
\* result under the name of its backend
sync_user_to_all_services(user_data, answers) ==
    [s \in Services |-> sync_to(s, answers[s])]

\* no broadcast was made
NoSync == [s \in Services |-> FALSE]

-----------------------------------------------------------------------------
(* middleware/permissions.py: a check answers 200 when it raises nothing   *)
(* and the status of the HTTPException it raises otherwise.                *)

\* check_same_org with the bypass of check_ownership (admin or manager)
check_same_org_manager_bypass(current_user, resource_org_id) ==
    IF Get(current_user, "organization_id") # resource_org_id
    THEN IF Get(current_user, "role") \notin {"admin", "manager"} THEN 403 ELSE 200
    ELSE 200

\* check_same_org without the admin bypass
check_same_org_no_bypass(current_user, resource_org_id) ==
    IF Get(current_user, "organization_id") # resource_org_id THEN 403 ELSE 200

check_same_org(current_user, resource_org_id) ==
    IF Get(current_user, "organization_id") # resource_org_id
    THEN IF Get(current_user, "role") # "admin" THEN 403 ELSE 200
    ELSE 200

check_ownership(current_user, owner_id) ==
    IF Get(current_user, "sub") # owner_id
    THEN IF Get(current_user, "role") \notin {"admin", "manager"} THEN 403 ELSE 200
    ELSE 200

check_org_membership(current_user) ==
    IF ~Truthy(Get(current_user, "organization_id")) THEN 400 ELSE 200

\* validate_user_in_organization: a users row with that id and that
\* organization_id.  SQL "organization_id = NULL" matches no row.
validate_user_in_organization(user_id, org_id, db_users) ==
    \E u \in db_users : u.id = user_id /\ u.organization_id = org_id

-----------------------------------------------------------------------------
(* The bearer tokens a client may present.  The gateway keeps no session   *)
(* state: whatever verifies under JWT_SECRET is trusted.                   *)

EmailOf(sub) == IF sub = UserIdPool[1] THEN "a@x.com" ELSE "b@x.com"

\* the claims {sub, email, name, role, organization_id?, iat, exp}
Claims(sub, role, org, exp) ==
    [k \in {"sub", "email", "name", "role", "iat", "exp"}
           \cup (IF org = None THEN {} ELSE {"organization_id"}) |->
        CASE k = "sub"   -> sub
          [] k = "email" -> EmailOf(sub)
          [] k = "name"  -> "Ann"
          [] k = "role"  -> role
          [] k = "iat"   -> 0
          [] k = "exp"   -> exp
          [] OTHER       -> org]

LongExp == MaxDay + JWT_EXPIRE_DAYS

\* signed with the gateway secret and not expiring within the model's days
GoodTokens ==
    {jwt_encode(Claims(sub, role, org, LongExp), JWT_SECRET) :
        sub \in UserIds, role \in Roles, org \in OrgOrNone}

\* signed with the gateway secret, exp = day 0: valid on day 0, expired after
ExpiringTokens ==
    {jwt_encode(Claims(UserIdPool[1], role, OrgIdPool[1], 0), JWT_SECRET) :
        role \in {"admin", "member"}}

ForgedTokens ==
    {jwt_encode(Claims(UserIdPool[1], role, OrgIdPool[1], LongExp), OtherSecret) :
        role \in {"admin", "member"}}

MalformedToken == [form |-> "malformed"]

NoSubToken ==
    jwt_encode([role |-> "admin", organization_id |-> OrgIdPool[1],
                iat |-> 0, exp |-> LongExp], JWT_SECRET)

Tokens ==
    GoodTokens \cup ExpiringTokens \cup ForgedTokens
        \cup {MalformedToken, NoSubToken}

-----------------------------------------------------------------------------
(* The backends' data, as far as the gateway reads it.  The backends are   *)
(* external: a resource is what its backend answers for its id.            *)

\* Atlas: projects by id {organization_id, owner_id}
AtlasProjects ==
    [p \in {"p1", "p2", "p3"} |->
        CASE p = "p1" -> [id |-> p, organization_id |-> OrgIdPool[1], owner_id |-> UserIdPool[1]]
          [] p = "p2" -> [id |-> p, organization_id |-> OrgIdPool[2], owner_id |-> UserIdPool[2]]
          [] OTHER    -> [id |-> p, organization_id |-> None, owner_id |-> UserIdPool[1]]]

\* Atlas: tasks by id {project_id, assignee_id, created_by}
AtlasTasks ==
    [t \in {"t1", "t2"} |->
        IF t = "t1"
        THEN [id |-> t, project_id |-> "p1", assignee_id |-> UserIdPool[1], created_by |-> UserIdPool[1]]
        ELSE [id |-> t, project_id |-> "p2", assignee_id |-> None, created_by |-> UserIdPool[2]]]

\* Labs: labs by id {orchestrator_org_id}
LabsLabs ==
    [l \in {"l1", "l2"} |->
        IF l = "l1"
        THEN [id |-> l, orchestrator_org_id |-> OrgIdPool[1]]
        ELSE [id |-> l, orchestrator_org_id |-> OrgIdPool[2]]]

ProjectIds == DOMAIN AtlasProjects \cup {"p9"}

TaskIds == DOMAIN AtlasTasks \cup {"t9"}

LabIds == DOMAIN LabsLabs \cup {"l9"}

\* the exchange of a GET for one record: the record, 404 when the backend
\* has none, or no connection when the backend is down
Fetch(store, id, up) ==
    IF ~up THEN ConnectError
    ELSE IF id \in DOMAIN store THEN Json(Dict(store[id]))
    ELSE HttpStatus(404)

\* the exchange of a write or a list query: an answer, or no connection
Exchange(body, up) == IF up THEN Json(body) ELSE ConnectError

\* the organization a resource belongs to in its backend
ProjectOrg(pid) ==
    IF pid \in DOMAIN AtlasProjects THEN AtlasProjects[pid].organization_id ELSE None

TaskOrg(tid) ==
    IF tid \in DOMAIN AtlasTasks THEN ProjectOrg(AtlasTasks[tid].project_id) ELSE None

LabOrg(lid) ==
    IF lid \in DOMAIN LabsLabs THEN LabsLabs[lid].orchestrator_org_id ELSE None

-----------------------------------------------------------------------------
(* services/atlas_client.py *)

\* get_projects: the projects of an organization; [] for a body that is no list
AtlasClient_get_projects(org_id, up) ==
    ListOrEmpty(BaseServiceClient_get("atlas", <<"/api/v1/internal/projects">>,
        Exchange(List(IF org_id = OrgIdPool[1] THEN <<AtlasProjects["p1"]>>
                      ELSE IF org_id = OrgIdPool[2] THEN <<AtlasProjects["p2"]>>
                      ELSE <<>>), up)))

AtlasClient_get_project(project_id, up) ==
    BaseServiceClient_get("atlas", <<"/api/v1/internal/projects/", project_id>>,
                          Fetch(AtlasProjects, project_id, up))

AtlasClient_get_task(task_id, up) ==
    BaseServiceClient_get("atlas", <<"/api/v1/internal/tasks/", task_id>>,
                          Fetch(AtlasTasks, task_id, up))

AtlasClient_update_project(project_id, up) ==
    BaseServiceClient_put("atlas", <<"/api/v1/internal/projects/", project_id>>,
                          Exchange(Dict([id |-> project_id, status |-> "updated"]), up))

AtlasClient_create_task(project_id, up) ==
    BaseServiceClient_post("atlas", <<"/api/v1/internal/projects/", project_id, "/tasks">>,
                           Exchange(Dict([project_id |-> project_id, status |-> "created"]), up))

AtlasClient_update_task(task_id, up) ==
    BaseServiceClient_put("atlas", <<"/api/v1/internal/tasks/", task_id>>,
                          Exchange(Dict([id |-> task_id, status |-> "updated"]), up))

AtlasClient_get_project_tasks(project_id, up) ==
    ListOrEmpty(BaseServiceClient_get("atlas", <<"/api/v1/projects/", project_id, "/tasks">>,
        Exchange(List(IF project_id \in DOMAIN AtlasProjects
                      THEN <<[project_id |-> project_id, status |-> "Done"]>>
                      ELSE <<>>), up)))

-----------------------------------------------------------------------------
(* The observation of one gateway request.                                 *)
(*   handler    the handler that served it                                 *)
(*   token      the bearer token presented                                 *)
(*   status     the HTTP status answered                                   *)
(*   claims     current_user as the handler saw it (NoClaims: none)        *)
(*   ran        the handler body ran (get_current_user let it through)     *)
(*   target     the id the request addresses                               *)
(*   resOrg     the organization the addressed resource belongs to         *)
(*   returned   data of the addressed resource was returned to the client  *)
(*   forwarded  the write the handler sent to a backend ("none": none)     *)
(*   sameOrg    what check_same_org answered (0: it was not called)        *)
(*   checkedOrg the resource_org_id check_same_org was called with         *)
(*   body       the response body                                          *)
(*   issued     the token the response carries                             *)
(*   upstream   how the one backend call of the handler ended              *)
(*              ("none": no call, "answered", "failed")                    *)
(*   assignee   the assignee_id of the task a create_task asks for         *)

NoToken == [form |-> "none"]

Obs(h, tok, today) ==
    LET auth == get_current_user(tok, today) IN
    [handler |-> h, token |-> tok, status |-> auth.status, claims |-> auth.payload,
     ran |-> auth.status = 200, target |-> None, resOrg |-> None,
     returned |-> FALSE, forwarded |-> "none", sameOrg |-> 0, checkedOrg |-> None,
     body |-> NoBody, issued |-> NoToken, email |-> None,
     synced |-> FALSE, sync |-> NoSync, upstream |-> "none",
     assignee |-> None]

\* no request is being served
NoRequest ==
    [handler |-> "none", token |-> NoToken, status |-> 0, claims |-> NoClaims,
     ran |-> FALSE, target |-> None, resOrg |-> None,
     returned |-> FALSE, forwarded |-> "none", sameOrg |-> 0, checkedOrg |-> None,
     body |-> NoBody, issued |-> NoToken, email |-> None,
     synced |-> FALSE, sync |-> NoSync, upstream |-> "none",
     assignee |-> None]

Idle == last = NoRequest

IsResource(x) == x.t = "dict" /\ "error" \notin DOMAIN x.v

\* the observation of a handler body that called its backend once: up says
\* whether the backend was reached
Upstream(o, up) ==
    IF o.ran THEN [o EXCEPT !.upstream = IF up THEN "answered" ELSE "failed"] ELSE o

-----------------------------------------------------------------------------
(* routers/projects.py *)

get_project_response(tok, project_id, up, today) ==
    LET o  == [Obs("get_project", tok, today) EXCEPT
                  !.target = project_id, !.resOrg = ProjectOrg(project_id)]
        cu == o.claims
        project == AtlasClient_get_project(project_id, up)
        org  == DictGet(project, "organization_id")
        same == check_same_org(cu, org)
    IN  IF ~o.ran THEN o
        ELSE IF same # 200 THEN [o EXCEPT !.status = same, !.sameOrg = same, !.checkedOrg = org]
        ELSE [o EXCEPT !.status = 200, !.sameOrg = same, !.checkedOrg = org, !.body = project,
                       !.returned = IsResource(project)]

update_project_response(tok, project_id, up, upWrite, today) ==
    LET o  == [Obs("update_project", tok, today) EXCEPT
                  !.target = project_id, !.resOrg = ProjectOrg(project_id)]
        cu == o.claims
        project == AtlasClient_get_project(project_id, up)
        org  == DictGet(project, "organization_id")
        same == check_same_org(cu, org)
        own  == check_ownership(cu, DictGet(project, "owner_id"))
    IN  IF ~o.ran THEN o
        ELSE IF same # 200 THEN [o EXCEPT !.status = same, !.sameOrg = same, !.checkedOrg = org]
        ELSE IF own # 200 THEN [o EXCEPT !.status = own, !.sameOrg = same, !.checkedOrg = org]
        ELSE [o EXCEPT !.status = 200, !.sameOrg = same, !.checkedOrg = org,
                       !.forwarded = "update_project",
                       !.body = AtlasClient_update_project(project_id, upWrite)]

\* validate_task_assignment: fetches the project again, repeats the
\* organization check and wants the assignee in the project's organization.
\* validate_task_assignment where the admin bypass skips the assignee as well
validate_task_assignment_bypassed(db_users, project_id, assignee_id, current_user, up) ==
    LET project == AtlasClient_get_project(project_id, up)
        org == DictGet(project, "organization_id")
    IN  IF Get(current_user, "role") = "admin" THEN 200
        ELSE IF org # Get(current_user, "organization_id") THEN 403
        ELSE IF ~validate_user_in_organization(assignee_id, org, db_users)
        THEN 400
        ELSE 200

validate_task_assignment(db_users, project_id, assignee_id, current_user, up) ==
    LET project == AtlasClient_get_project(project_id, up)
        org == DictGet(project, "organization_id")
    IN  IF org # Get(current_user, "organization_id")
             /\ Get(current_user, "role") # "admin"
        THEN 403
        ELSE IF ~validate_user_in_organization(assignee_id, org, db_users)
        THEN 400
        ELSE 200

\* create_task: up is the outcome of the handler's own fetch of the project,
\* up2 of the fetch validate_task_assignment makes
create_task_response(tok, project_id, assignee_id, up, up2, upWrite, today, db_users) ==
    LET o  == [Obs("create_task", tok, today) EXCEPT
                  !.target = project_id, !.resOrg = ProjectOrg(project_id),
                  !.assignee = assignee_id]
        cu == o.claims
        project == AtlasClient_get_project(project_id, up)
        org  == DictGet(project, "organization_id")
        same == check_same_org(cu, org)
        val  == IF assignee_id # None
                THEN validate_task_assignment(db_users, project_id, assignee_id, cu, up2)
                ELSE 200
    IN  IF ~o.ran THEN o
        ELSE IF Get(cu, "role") \notin {"admin", "manager"} THEN [o EXCEPT !.status = 403]
        ELSE IF same # 200 THEN [o EXCEPT !.status = same, !.sameOrg = same, !.checkedOrg = org]
        ELSE IF val # 200 THEN [o EXCEPT !.status = val, !.sameOrg = same, !.checkedOrg = org]
        ELSE [o EXCEPT !.status = 200, !.sameOrg = same, !.checkedOrg = org,
                       !.forwarded = "create_task",
                       !.body = AtlasClient_create_task(project_id, upWrite)]

get_project_tasks_response(tok, project_id, up, up2, today) ==
    LET o  == [Obs("get_project_tasks", tok, today) EXCEPT
                  !.target = project_id, !.resOrg = ProjectOrg(project_id)]
        cu == o.claims
        project == AtlasClient_get_project(project_id, up)
        tasks == AtlasClient_get_project_tasks(project_id, up2)
    IN  IF ~o.ran THEN o
        ELSE IF DictGet(project, "organization_id") # Get(cu, "organization_id")
                  /\ Get(cu, "role") # "admin"
        THEN [o EXCEPT !.status = 403]
        ELSE [o EXCEPT !.status = 200, !.body = tasks,
                       !.returned = (Len(tasks.v) > 0)]

update_task_response(tok, task_id, up, upWrite, today) ==
    LET o  == [Obs("update_task", tok, today) EXCEPT
                  !.target = task_id, !.resOrg = TaskOrg(task_id)]
        cu == o.claims
        task == AtlasClient_get_task(task_id, up)
        is_assignee == DictGet(task, "assignee_id") = Get(cu, "sub")
        is_creator  == DictGet(task, "created_by") = Get(cu, "sub")
        is_manager  == Get(cu, "role") \in {"admin", "manager"}
    IN  IF ~o.ran THEN o
        ELSE IF ~(is_assignee \/ is_creator \/ is_manager) THEN [o EXCEPT !.status = 403]
        ELSE [o EXCEPT !.status = 200, !.forwarded = "update_task",
                       !.body = AtlasClient_update_task(task_id, upWrite)]

\* get_projects: 400 without an organization in the token, else whatever
\* atlas_client.get_projects returns; an Exception would be answered 500
get_projects_response(tok, up, today) ==
    LET o == Obs("get_projects", tok, today)
        org_id == Get(o.claims, "organization_id")
        projects == AtlasClient_get_projects(org_id, up)
    IN  IF ~o.ran THEN o
        ELSE IF ~Truthy(org_id) THEN [o EXCEPT !.status = 400]
        ELSE IF projects.t = "exc" THEN [o EXCEPT !.status = 500, !.resOrg = org_id]
        ELSE [Upstream(o, up) EXCEPT !.status = 200, !.resOrg = org_id,
                                     !.body = projects,
                                     !.returned = (Len(projects.v) > 0)]

get_projects(tok, up) ==
    /\ Idle
    /\ last' = get_projects_response(tok, up, now)
    /\ UNCHANGED <<users, organizations, now, call, invitations, sup, backend_users>>

get_project(tok, project_id, up) ==
    /\ Idle
    /\ last' = Upstream(get_project_response(tok, project_id, up, now), up)
    /\ UNCHANGED <<users, organizations, now, call, invitations, sup, backend_users>>

update_project(tok, project_id, up, upWrite) ==
    /\ Idle
    /\ last' = update_project_response(tok, project_id, up, upWrite, now)
    /\ UNCHANGED <<users, organizations, now, call, invitations, sup, backend_users>>

create_task(tok, project_id, assignee_id, up, up2, upWrite) ==
    /\ Idle
    /\ last' = create_task_response(tok, project_id, assignee_id, up, up2, upWrite,
                                    now, users)
    /\ UNCHANGED <<users, organizations, now, call, invitations, sup, backend_users>>

get_project_tasks(tok, project_id, up, up2) ==
    /\ Idle
    /\ last' = get_project_tasks_response(tok, project_id, up, up2, now)
    /\ UNCHANGED <<users, organizations, now, call, invitations, sup, backend_users>>

update_task(tok, task_id, up, upWrite) ==
    /\ Idle
    /\ last' = update_task_response(tok, task_id, up, upWrite, now)
    /\ UNCHANGED <<users, organizations, now, call, invitations, sup, backend_users>>

-----------------------------------------------------------------------------
(* services/labs_client.py: LabsClient does not extend BaseServiceClient;  *)
(* each method has its own except clause.                                  *)

\* get_lab: {"error": str(e)} on any Exception
LabsClient_get_lab(lab_id, outcome) ==
    IF outcome.kind = "json" THEN outcome.body
    ELSE IF outcome.kind = "cancelled" THEN Exc("CancelledError")
    ELSE Dict([error |-> ErrorText(outcome)])

\* get_labs(self, token=None): kwargs are the keyword arguments of the call;
\* a keyword the signature does not have raises TypeError.
\* [] on any Exception and for a body that is no list.
LabsClient_get_labs(kwargs, outcome) ==
    IF ~(kwargs \subseteq {"token"}) THEN Exc("TypeError")
    ELSE IF outcome.kind = "json"
    THEN (IF outcome.body.t = "list" THEN outcome.body ELSE List(<<>>))
    ELSE IF outcome.kind = "cancelled" THEN Exc("CancelledError")
    ELSE List(<<>>)

\* get_lab_researchers: [] on any Exception and for a body that is no list
LabsClient_get_lab_researchers(lab_id, outcome) ==
    IF outcome.kind = "json"
    THEN (IF outcome.body.t = "list" THEN outcome.body ELSE List(<<>>))
    ELSE IF outcome.kind = "cancelled" THEN Exc("CancelledError")
    ELSE List(<<>>)

\* create_lab: {"error", "service", "attempted_url"} on any Exception
LabsClient_create_lab(lab_data, outcome) ==
    IF outcome.kind = "json" THEN outcome.body
    ELSE IF outcome.kind = "cancelled" THEN Exc("CancelledError")
    ELSE Dict([error         |-> ErrorText(outcome),
               service       |-> "labs",
               attempted_url |-> <<"/api/v1/labs/">>])

-----------------------------------------------------------------------------
(* services/workpulse_client.py *)

WorkPulseClient_get_team_activity(org_id, up) ==
    ListOrEmpty(BaseServiceClient_get("workpulse", <<"/api/v1/activity/team/", org_id>>,
        Exchange(List(IF org_id \in Orgs THEN <<[organization_id |-> org_id]>> ELSE <<>>), up)))

WorkPulseClient_get_user_activity(user_id, up) ==
    BaseServiceClient_get("workpulse", <<"/api/v1/activity/user/", user_id>>,
        Exchange(List(<<[orchestrator_user_id |-> user_id]>>), up))

-----------------------------------------------------------------------------
(* routers/research.py, routers/monitoring.py *)

\* an Exception no handler catches is answered by main.global_exception_handler
Unhandled(o) == [o EXCEPT !.status = 500, !.body = NoBody]

get_labs_response(tok, up, today) ==
    LET o == Obs("get_labs", tok, today)
        labs == LabsClient_get_labs({"user_id"}, Exchange(List(<<>>), up))
    IN  IF ~o.ran THEN o
        ELSE IF labs.t = "exc" THEN Unhandled(o)
        ELSE [o EXCEPT !.status = 200, !.body = labs]

get_lab_response(tok, lab_id, up, today) ==
    LET o == [Obs("get_lab", tok, today) EXCEPT
                 !.target = lab_id, !.resOrg = LabOrg(lab_id)]
        lab == LabsClient_get_lab(lab_id, Fetch(LabsLabs, lab_id, up))
    IN  IF ~o.ran THEN o
        ELSE [o EXCEPT !.status = 200, !.body = lab, !.returned = IsResource(lab)]

create_lab_response(tok, org_id, up, today) ==
    LET o == [Obs("create_lab", tok, today) EXCEPT !.target = org_id, !.resOrg = org_id]
        lab_dict == [organization_id |-> org_id, orchestrator_org_id |-> org_id,
                     orchestrator_user_id |-> Get(o.claims, "sub")]
    IN  IF ~o.ran THEN o
        ELSE [o EXCEPT !.status = 200, !.forwarded = "create_lab",
                       !.body = LabsClient_create_lab(lab_dict, Exchange(Dict(lab_dict), up))]

get_lab_researchers_response(tok, lab_id, up, today) ==
    LET o == [Obs("get_lab_researchers", tok, today) EXCEPT
                 !.target = lab_id, !.resOrg = LabOrg(lab_id)]
        found == LabsClient_get_lab_researchers(lab_id,
                     Exchange(List(IF lab_id \in DOMAIN LabsLabs
                                   THEN <<[lab_id |-> lab_id]>> ELSE <<>>), up))
    IN  IF ~o.ran THEN o
        ELSE [o EXCEPT !.status = 200, !.body = found, !.returned = (Len(found.v) > 0)]

get_team_activity_response(tok, org_id, up, today) ==
    LET o == [Obs("get_team_activity", tok, today) EXCEPT
                 !.target = org_id, !.resOrg = org_id]
        found == WorkPulseClient_get_team_activity(org_id, up)
    IN  IF ~o.ran THEN o
        ELSE [o EXCEPT !.status = 200, !.body = found, !.returned = (Len(found.v) > 0)]

\* the organization of a user, as the users table has it
UserOrg(db_users, user_id) ==
    IF \E u \in db_users : u.id = user_id
    THEN (CHOOSE u \in db_users : u.id = user_id).organization_id
    ELSE None

get_user_activity_response(tok, user_id, up, today, db_users) ==
    LET o == [Obs("get_user_activity", tok, today) EXCEPT
                 !.target = user_id, !.resOrg = UserOrg(db_users, user_id)]
        found == WorkPulseClient_get_user_activity(user_id, up)
    IN  IF ~o.ran THEN o
        ELSE [o EXCEPT !.status = 200, !.body = found, !.returned = (found.t = "list")]

get_labs(tok, up) ==
    /\ Idle
    /\ last' = get_labs_response(tok, up, now)
    /\ UNCHANGED <<users, organizations, now, call, invitations, sup, backend_users>>

get_lab(tok, lab_id, up) ==
    /\ Idle
    /\ last' = Upstream(get_lab_response(tok, lab_id, up, now), up)
    /\ UNCHANGED <<users, organizations, now, call, invitations, sup, backend_users>>

create_lab(tok, org_id, up) ==
    /\ Idle
    /\ last' = create_lab_response(tok, org_id, up, now)
    /\ UNCHANGED <<users, organizations, now, call, invitations, sup, backend_users>>

get_lab_researchers(tok, lab_id, up) ==
    /\ Idle
    /\ last' = get_lab_researchers_response(tok, lab_id, up, now)
    /\ UNCHANGED <<users, organizations, now, call, invitations, sup, backend_users>>

get_team_activity(tok, org_id, up) ==
    /\ Idle
    /\ last' = Upstream(get_team_activity_response(tok, org_id, up, now), up)
    /\ UNCHANGED <<users, organizations, now, call, invitations, sup, backend_users>>

get_user_activity(tok, user_id, up) ==
    /\ Idle
    /\ last' = Upstream(get_user_activity_response(tok, user_id, up, now, users), up)
    /\ UNCHANGED <<users, organizations, now, call, invitations, sup, backend_users>>

-----------------------------------------------------------------------------
(* routers/auth.py *)

\* bcrypt: the hash is checked against the password, never read back
get_password_hash(password) == <<"bcrypt", password>>

verify_password(plain_password, hashed_password) ==
    hashed_password = <<"bcrypt", plain_password>>

\* generate_user_id / uuid.uuid4: an id no row has yet
NewUserId(db_users) == UserIdPool[Cardinality(db_users) + 1]

NewOrgId(db_orgs) == OrgIdPool[Cardinality(db_orgs) + 1]

UserByEmail(db_users, email) == {u \in db_users : u.email = email}

UserById(db_users, id) == {u \in db_users : u.id = id}

\* an observation of a request that carries no bearer token
Anonymous(h, email) ==
    [handler |-> h, token |-> NoToken, status |-> 200, claims |-> NoClaims,
     ran |-> TRUE, target |-> None, resOrg |-> None,
     returned |-> FALSE, forwarded |-> "none", sameOrg |-> 0, checkedOrg |-> None,
     body |-> NoBody, issued |-> NoToken, email |-> email,
     synced |-> FALSE, sync |-> NoSync, upstream |-> "none",
     assignee |-> None]

\* the answer of register and login once create_user_token was called:
\* the token, or 500 when the call raised
TokenResponse(o, token, user) ==
    IF token = TypeError
    THEN [o EXCEPT !.status = 500]
    ELSE [o EXCEPT !.status = 200, !.issued = token,
                   !.body = Dict([id |-> user.id, email |-> user.email,
                                  role |-> user.role,
                                  organization_id |-> user.organization_id])]

\* register: the user row, the organization row owned by the user, the
\* user's organization_id (three commits), the broadcast of the user to the
\* backends, then the token.
register(email, name, password, role, answers) ==
    LET o == Anonymous("register", email) IN
    /\ Idle
    /\ IF UserByEmail(users, email) # {}
       THEN /\ last' = [o EXCEPT !.status = 400]
            /\ UNCHANGED <<users, organizations, now, call, invitations, sup, backend_users>>
       ELSE LET user_id == NewUserId(users)
                org_id  == NewOrgId(organizations)
                new_user == [id |-> user_id, email |-> email, name |-> name,
                             hashed_password |-> get_password_hash(password),
                             role |-> role, organization_id |-> org_id,
                             is_active |-> TRUE]
                sync_results == sync_user_to_all_services(new_user, answers)
                token == create_user_token(<<user_id, email, name, role, org_id>>, now)
            IN  /\ Cardinality(users) < Len(UserIdPool)
                /\ Cardinality(organizations) < Len(OrgIdPool)
                /\ users' = users \cup {new_user}
                /\ organizations' = organizations \cup {[id |-> org_id, owner_id |-> user_id]}
                /\ last' = TokenResponse([o EXCEPT !.target = user_id, !.resOrg = org_id,
                                                   !.synced = TRUE,
                                                   !.sync = sync_results],
                                         token, new_user)
                /\ UNCHANGED <<now, call, invitations, sup, backend_users>>

login(email, password) ==
    LET o == Anonymous("login", email)
        found == UserByEmail(users, email)
        user == CHOOSE u \in found : TRUE
        token == create_user_token(
                     <<user.id, user.email, user.name, user.role, user.organization_id>>, now)
    IN  /\ Idle
        /\ last' = IF found = {} \/ ~verify_password(password, user.hashed_password)
                   THEN [o EXCEPT !.status = 401]
                   ELSE IF ~user.is_active THEN [o EXCEPT !.status = 403]
                   ELSE TokenResponse([o EXCEPT !.target = user.id,
                                                !.resOrg = user.organization_id],
                                      token, user)
        /\ UNCHANGED <<users, organizations, now, call, invitations, sup, backend_users>>

get_me_response(tok, today, db_users) ==
    LET o == Obs("get_me", tok, today)
        found == UserById(db_users, Get(o.claims, "sub"))
        user == CHOOSE u \in found : TRUE
    IN  IF ~o.ran THEN o
        ELSE IF found = {} THEN [o EXCEPT !.status = 404]
        ELSE [o EXCEPT !.status = 200, !.target = user.id, !.resOrg = user.organization_id,
                       !.returned = TRUE,
                       !.body = Dict([id |-> user.id, email |-> user.email,
                                      role |-> user.role,
                                      organization_id |-> user.organization_id])]

get_me(tok) ==
    /\ Idle
    /\ last' = get_me_response(tok, now, users)
    /\ UNCHANGED <<users, organizations, now, call, invitations, sup, backend_users>>

\* uuid.uuid4 for an invitation: an id no row has yet
InvitationIdPool == <<"i1", "i2">>

InvitationById(db_invitations, id) == {i \in db_invitations : i.id = id}

\* send_invitation: only the owner of the organization invites; the unique
\* index on (email, organization_id) of pending invitations makes the commit
\* of a second pending invitation fail.
send_invitation(tok, email, org_id, role) ==
    LET o == Obs("send_invitation", tok, now)
        user_id == Get(o.claims, "sub")
        invitation_id == InvitationIdPool[Cardinality(invitations) + 1]
        new_invitation == [id |-> invitation_id, email |-> email,
                           organization_id |-> org_id, role |-> role,
                           invited_by |-> user_id, status |-> "pending"]
        pending == {i \in invitations : /\ i.email = email
                                        /\ i.organization_id = org_id
                                        /\ i.status = "pending"}
    IN  /\ Idle
        /\ Cardinality(invitations) < Len(InvitationIdPool)
        /\ IF ~o.ran
           THEN last' = o /\ UNCHANGED invitations
           ELSE IF [id |-> org_id, owner_id |-> user_id] \notin organizations
           THEN last' = [o EXCEPT !.status = 403] /\ UNCHANGED invitations
           ELSE IF pending # {}
           THEN last' = Unhandled(o) /\ UNCHANGED invitations
           ELSE /\ invitations' = invitations \cup {new_invitation}
                /\ last' = [o EXCEPT !.status = 200, !.target = invitation_id,
                                     !.resOrg = org_id, !.email = email,
                                     !.body = Dict(new_invitation)]
        /\ UNCHANGED <<users, organizations, now, call, sup, backend_users>>

\* accept_invitation: the invitation must exist (404), be for the email of
\* the token (403) and be pending (400); the user takes the organization and
\* the role of the invitation, the invitation becomes accepted (one commit),
\* and the user is broadcast to the backends.
accept_invitation(tok, invitation_id, answers) ==
    LET o == [Obs("accept_invitation", tok, now) EXCEPT !.target = invitation_id]
        user_id == Get(o.claims, "sub")
        email == Get(o.claims, "email")
        found == InvitationById(invitations, invitation_id)
        invitation == CHOOSE i \in found : TRUE
        rows == UserById(users, user_id)
        user == CHOOSE u \in rows : TRUE
        updated == [user EXCEPT !.organization_id = invitation.organization_id,
                                !.role = invitation.role]
    IN  /\ Idle
        /\ IF ~o.ran
           THEN last' = o /\ UNCHANGED <<users, invitations>>
           ELSE IF found = {}
           THEN last' = [o EXCEPT !.status = 404] /\ UNCHANGED <<users, invitations>>
           ELSE IF invitation.email # email
           THEN last' = [o EXCEPT !.status = 403] /\ UNCHANGED <<users, invitations>>
           ELSE IF invitation.status # "pending"
           THEN last' = [o EXCEPT !.status = 400] /\ UNCHANGED <<users, invitations>>
           ELSE IF rows = {}
           THEN last' = Unhandled(o) /\ UNCHANGED <<users, invitations>>
           ELSE /\ users' = (users \ {user}) \cup {updated}
                /\ invitations' = (invitations \ {invitation})
                                    \cup {[invitation EXCEPT !.status = "accepted"]}
                /\ last' = [o EXCEPT !.status = 200, !.email = email,
                                     !.resOrg = invitation.organization_id,
                                     !.synced = TRUE,
                                     !.sync = sync_user_to_all_services(updated, answers),
                                     !.body = Dict([message |-> "Invitation accepted",
                                         organization_id |-> invitation.organization_id,
                                         role |-> invitation.role])]
        /\ UNCHANGED <<organizations, now, call, sup, backend_users>>

\* reject_invitation: the same three checks; the invitation becomes rejected
reject_invitation(tok, invitation_id) ==
    LET o == [Obs("reject_invitation", tok, now) EXCEPT !.target = invitation_id]
        email == Get(o.claims, "email")
        found == InvitationById(invitations, invitation_id)
        invitation == CHOOSE i \in found : TRUE
    IN  /\ Idle
        /\ IF ~o.ran
           THEN last' = o /\ UNCHANGED invitations
           ELSE IF found = {}
           THEN last' = [o EXCEPT !.status = 404] /\ UNCHANGED invitations
           ELSE IF invitation.email # email
           THEN last' = [o EXCEPT !.status = 403] /\ UNCHANGED invitations
           ELSE IF invitation.status # "pending"
           THEN last' = [o EXCEPT !.status = 400] /\ UNCHANGED invitations
           ELSE /\ invitations' = (invitations \ {invitation})
                                    \cup {[invitation EXCEPT !.status = "rejected"]}
                /\ last' = [o EXCEPT !.status = 200, !.email = email,
                                     !.resOrg = invitation.organization_id,
                                     !.body = Dict([message |-> "Invitation rejected"])]
        /\ UNCHANGED <<users, organizations, now, call, sup, backend_users>>

\* the response is sent; the gateway waits for the next request
Deliver ==
    /\ ~Idle
    /\ last' = NoRequest
    /\ UNCHANGED <<users, organizations, now, call, invitations, sup, backend_users>>

\* a day passes (between two requests: a handler reads the clock once)
Tick ==
    /\ Idle
    /\ now < MaxDay
    /\ now' = now + 1
    /\ UNCHANGED <<users, organizations, last, call, invitations, sup, backend_users>>

-----------------------------------------------------------------------------
(* main.py: the supervisor of the backend child processes.  lifespan       *)
(* starts the four backends, waits for them, serves, and stops them at     *)
(* shutdown.  The state of the supervisor is the record sup.               *)

\* SERVICES / SERVICE_URLS, in the order the loops visit them
ServiceOrder == <<"atlas", "workpulse", "epr", "labs">>

\* wait_for_services_and_db(retries: int = 15, ...)
DefaultRetries == 15

\* the retry budgets wait_for_services_and_db is called with: the default
\* (by lifespan) and a budget of MinRetries (by a direct call)
MinRetries == 3

NotStarted ==
    [pc |-> "boot", caller |-> "none", retries |-> 0, dead |-> FALSE, i |-> 1,
     attempt |-> 1, waited |-> "none", failed_on |-> "None", probes |-> 0,
     process |-> [s \in Services |-> "none"],
     log     |-> [s \in Services |-> "none"],
     sent    |-> [s \in Services |-> "none"]]

\* lifespan is entered
lifespan_enter ==
    /\ sup.pc = "boot"
    /\ sup' = [sup EXCEPT !.pc = "starting", !.caller = "lifespan"]
    /\ UNCHANGED <<users, organizations, now, last, call, invitations, backend_users>>

\* start_service, called by start_all_services for the next backend.
\*   no_file      the service file does not exist: return False
\*   open_fails   open() of the log file raises: return False
\*   popen_fails  Popen raises after the log file was opened: return False;
\*                the open file is in no config entry
\*   started      process and log_file are stored in the config
start_service(outcome) ==
    /\ sup.pc = "starting"
    /\ LET name == ServiceOrder[sup.i]
       IN  sup' = [sup EXCEPT
                !.process[name] = IF outcome = "started" THEN "running" ELSE @,
                !.log[name] = CASE outcome = "started"     -> "open"
                                [] outcome = "popen_fails" -> "lost"
                                [] OTHER                   -> @,
                !.i = IF sup.i < Len(ServiceOrder) THEN sup.i + 1 ELSE 1,
                !.pc = IF sup.i < Len(ServiceOrder) THEN "starting" ELSE "sleeping"]
    /\ UNCHANGED <<users, organizations, now, last, call, invitations, backend_users>>

\* a child process exits by itself (a backend that fails to start, or
\* crashes).  Nothing reads the process before stop_all_services, so an
\* exit at any time before it is an exit while serving.
child_exits(name) ==
    /\ sup.pc = "serving"
    /\ sup.process[name] = "running"
    /\ sup' = [sup EXCEPT !.process[name] = "exited"]
    /\ UNCHANGED <<users, organizations, now, last, call, invitations, backend_users>>

\* the runtime may close an open file that nothing refers to any more
finalizer(name) ==
    /\ sup.pc = "serving"
    /\ sup.log[name] = "lost"
    /\ sup' = [sup EXCEPT !.log[name] = "closed"]
    /\ UNCHANGED <<users, organizations, now, last, call, invitations, backend_users>>

\* lifespan: await asyncio.sleep(15), then wait_for_services_and_db()
sleep_done ==
    /\ sup.pc = "sleeping"
    /\ sup' = [sup EXCEPT !.pc = "waiting_db", !.attempt = 1,
                          !.retries = DefaultRetries]
    /\ UNCHANGED <<users, organizations, now, last, call, invitations, backend_users>>

\* wait_for_services_and_db(retries) called on its own
wait_for_services_and_db(retries) ==
    /\ sup.pc = "boot"
    /\ sup' = [sup EXCEPT !.pc = "waiting_db", !.caller = "direct",
                          !.retries = retries, !.attempt = 1]
    /\ UNCHANGED <<users, organizations, now, last, call, invitations, backend_users>>

\* "for attempt in range(1, retries + 1)" has run its last attempt
budget_spent_late(attempt, retries) == attempt > retries

budget_spent(attempt, retries) == attempt >= retries

\* lifespan catches what the wait raises and goes on to serve
lifespan_after_wait_strict(waited) ==
    IF waited = "failed" THEN "aborted" ELSE "serving"

lifespan_after_wait(waited) == "serving"

\* wait_for_services_and_db is over: it returned (ready) or raised (failed)
WaitOver(waited) ==
    [sup EXCEPT !.waited = waited,
                !.dead = FALSE,
                !.failed_on = IF waited = "failed" /\ sup.pc = "waiting"
                              THEN ServiceOrder[sup.i] ELSE "None",
                !.pc = IF sup.caller = "lifespan" THEN lifespan_after_wait(waited)
                       ELSE IF waited = "failed" THEN "raised" ELSE "returned"]

\* one attempt of the database loop.  When the database is ready the loop
\* over SERVICE_URLS starts; dead: the health endpoint of its first backend
\* fails every probe.
init_db_attempt(ok, dead) ==
    /\ sup.pc = "waiting_db"
    /\ ~ok => ~dead
    /\ sup' = IF ok THEN [sup EXCEPT !.pc = "waiting", !.i = 1, !.attempt = 1,
                                     !.probes = 0, !.dead = dead]
              ELSE IF budget_spent(sup.attempt, sup.retries) THEN WaitOver("failed")
              ELSE [sup EXCEPT !.attempt = @ + 1]
    /\ UNCHANGED <<users, organizations, now, last, call, invitations, backend_users>>

\* what a probe of a health endpoint ends in
ProbeAnswers == {"200", "503", "timeout", "refused"}

\* check_service: True for a 200, False for any other status, a timeout or
\* any other exception
check_service(answer) == answer = "200"

\* one attempt of the loop over SERVICE_URLS: a probe of the current
\* backend, whose probes sup.probes counts.  dead: the health endpoint of
\* the next backend fails every probe.
probe(answer, dead) ==
    /\ sup.pc = "waiting"
    /\ sup.dead => answer # "200"
    /\ dead => (answer = "200" /\ sup.i < Len(ServiceOrder))
    /\ LET n == sup.probes + 1
       IN  sup' = IF check_service(answer)
                  THEN (IF sup.i < Len(ServiceOrder)
                        THEN [sup EXCEPT !.i = @ + 1, !.attempt = 1, !.probes = 0,
                                         !.dead = dead]
                        ELSE [WaitOver("ready") EXCEPT !.probes = n])
                  ELSE IF budget_spent(sup.attempt, sup.retries)
                  THEN [WaitOver("failed") EXCEPT !.probes = n]
                  ELSE [sup EXCEPT !.attempt = @ + 1, !.probes = n]
    /\ UNCHANGED <<users, organizations, now, last, call, invitations, backend_users>>

\* lifespan: the application shuts down, stop_all_services() is called.
\* The locals of the wait are long gone.
shutdown ==
    /\ sup.pc = "serving"
    /\ sup' = [sup EXCEPT !.pc = "stopping", !.i = 1, !.attempt = 1, !.probes = 0,
                          !.failed_on = "None"]
    /\ UNCHANGED <<users, organizations, now, last, call, invitations, backend_users>>

\* one iteration of the loop of stop_all_services.  For a child that is
\* running (poll() is None):
\*   exits             terminate(), and the child exits within the 5 s wait
\*   timeout           TimeoutExpired: kill()
\*   terminate_raises  terminate() raises another Exception: printed
\*   wait_raises       wait() raises another Exception: printed
\* then the log file of the config entry, if any, is closed.
stop_service(outcome) ==
    /\ sup.pc = "stopping"
    /\ LET name == ServiceOrder[sup.i]
           running == sup.process[name] = "running"
       IN  /\ ~running => outcome = "exits"
           /\ sup' = [sup EXCEPT
                !.process[name] =
                    IF ~running THEN @
                    ELSE CASE outcome = "exits"   -> "terminated"
                           [] outcome = "timeout" -> "killed"
                           [] OTHER               -> "running",
                !.sent[name] =
                    IF ~running THEN @
                    ELSE CASE outcome = "exits"            -> "terminate"
                           [] outcome = "timeout"          -> "kill"
                           [] outcome = "terminate_raises" -> "none"
                           [] OTHER                        -> "terminate",
                !.log[name] = IF @ = "open" THEN "closed" ELSE @,
                !.i = IF sup.i < Len(ServiceOrder) THEN sup.i + 1 ELSE 1,
                !.pc = IF sup.i < Len(ServiceOrder) THEN "stopping" ELSE "stopped"]
    /\ UNCHANGED <<users, organizations, now, last, call, invitations, backend_users>>

StartOutcomes == {"no_file", "open_fails", "popen_fails", "started"}

StopOutcomes == {"exits", "timeout", "terminate_raises", "wait_raises"}

\* the steps the supervisor takes by itself once it was entered
SupervisorStep ==
    \/ \E outcome \in StartOutcomes : start_service(outcome)
    \/ sleep_done
    \/ \E ok, dead \in BOOLEAN : init_db_attempt(ok, dead)
    \/ \E answer \in ProbeAnswers, dead \in BOOLEAN : probe(answer, dead)
    \/ \E outcome \in StopOutcomes : stop_service(outcome)

NextSupervisor ==
    \/ lifespan_enter
    \/ wait_for_services_and_db(MinRetries)
    \/ \E outcome \in StartOutcomes : start_service(outcome)
    \/ sleep_done
    \/ \E ok, dead \in BOOLEAN : init_db_attempt(ok, dead)
    \/ \E answer \in ProbeAnswers, dead \in BOOLEAN : probe(answer, dead)
    \/ \E name \in Services : child_exits(name)
    \/ \E name \in Services : finalizer(name)
    \/ shutdown
    \/ \E outcome \in StopOutcomes : stop_service(outcome)

-----------------------------------------------------------------------------
(* The gateway: a database with no rows, and every request any client may  *)
(* send, in any order.                                                     *)

\* no proxy call or dashboard request is being answered
NoCall == [op |-> "none"]

Init ==
    /\ users = {}
    /\ organizations = {}
    /\ now = 0
    /\ last = NoRequest
    /\ call = NoCall
    /\ invitations = {}
    /\ sup = NotStarted
    /\ backend_users = [s \in Services |-> {}]

Next ==
    \/ /\ Idle
       /\ \E e \in Emails, n \in Names, p \in Passwords, r \in Roles,
             answers \in [Services -> {Answered(200), ConnectError}] :
                register(e, n, p, r, answers)
    \/ /\ Idle
       /\ \E e \in Emails, p \in Passwords \cup {"bad"} : login(e, p)
    \/ /\ Idle
       /\ \E tok \in Tokens : get_me(tok)
    \/ /\ Idle
       /\ \E tok \in Tokens, up \in BOOLEAN : get_projects(tok, up)
    \/ /\ Idle
       /\ \E tok \in Tokens, pid \in ProjectIds, up \in BOOLEAN : get_project(tok, pid, up)
    \/ /\ Idle
       /\ \E tok \in Tokens, pid \in ProjectIds, up, upWrite \in BOOLEAN :
             update_project(tok, pid, up, upWrite)
    \/ /\ Idle
       /\ \E tok \in Tokens, pid \in ProjectIds, a \in UserIds \cup {None},
             up, up2, upWrite \in BOOLEAN : create_task(tok, pid, a, up, up2, upWrite)
    \/ /\ Idle
       /\ \E tok \in Tokens, pid \in ProjectIds, up, up2 \in BOOLEAN :
             get_project_tasks(tok, pid, up, up2)
    \/ /\ Idle
       /\ \E tok \in Tokens, tid \in TaskIds, up, upWrite \in BOOLEAN :
             update_task(tok, tid, up, upWrite)
    \/ /\ Idle
       /\ \E tok \in Tokens, up \in BOOLEAN : get_labs(tok, up)
    \/ /\ Idle
       /\ \E tok \in Tokens, lid \in LabIds, up \in BOOLEAN : get_lab(tok, lid, up)
    \/ /\ Idle
       /\ \E tok \in Tokens, org \in Orgs, up \in BOOLEAN : create_lab(tok, org, up)
    \/ /\ Idle
       /\ \E tok \in Tokens, lid \in LabIds, up \in BOOLEAN : get_lab_researchers(tok, lid, up)
    \/ /\ Idle
       /\ \E tok \in Tokens, org \in Orgs, up \in BOOLEAN : get_team_activity(tok, org, up)
    \/ /\ Idle
       /\ \E tok \in Tokens, uid \in UserIds, up \in BOOLEAN : get_user_activity(tok, uid, up)
    \/ Deliver
    \/ Tick

Spec == Init /\ [][Next]_vars

-----------------------------------------------------------------------------
(* services/epr_client.py, and the proxy methods the dashboard uses        *)

AtlasClient_get_user_projects(user_id, outcome) ==
    ListOrEmpty(BaseServiceClient_get("atlas",
        <<"/api/v1/internal/user/", user_id, "/projects">>, outcome))

AtlasClient_get_user_tasks(user_id, outcome) ==
    ListOrEmpty(BaseServiceClient_get("atlas",
        <<"/api/v1/internal/user/", user_id, "/tasks">>, outcome))

WorkPulseClient_get_today_activity(user_id, outcome) ==
    BaseServiceClient_get("workpulse",
        <<"/api/v1/activity/user/", user_id, "/today">>, outcome)

EPRClient_get_performance_score(user_id, outcome) ==
    BaseServiceClient_get("epr",
        <<"/api/v1/analytics/user/", user_id, "/performance">>, outcome)

EPRClient_get_user_goals(user_id, outcome) ==
    ListOrEmpty(BaseServiceClient_get("epr", <<"/api/v1/goals/user/", user_id>>, outcome))

-----------------------------------------------------------------------------
(* aggregators/dashboard.py *)

SubQueries == {"projects", "tasks", "activity", "performance", "goals", "labs"}

ListQueries == {"projects", "tasks", "goals", "labs"}

Min(a, b) == IF a < b THEN a ELSE b

\* x[:n] of a value, [] when it is no list
Slice(x, n) == IF x.t = "list" THEN SubSeq(x.v, 1, Min(n, Len(x.v))) ELSE <<>>

\* len(x) if isinstance(x, list) else 0
Total(x) == IF x.t = "list" THEN Len(x.v) ELSE 0

\* len([i for i in (x if isinstance(x, list) else []) if i.get('status') == st])
CountStatus(x, st) ==
    IF x.t = "list" THEN Cardinality({i \in DOMAIN x.v : Get(x.v[i], "status") = st}) ELSE 0

CountNotStatus(x, st) ==
    IF x.t = "list" THEN Cardinality({i \in DOMAIN x.v : Get(x.v[i], "status") # st}) ELSE 0

\* x.get(k, default) if isinstance(x, dict) else default
Field(x, k, default) ==
    IF x.t = "dict" /\ k \in DOMAIN x.v THEN x.v[k] ELSE default

\* asyncio.gather(..., return_exceptions=False): the first exception is raised
gather_raising(awaited) ==
    IF \E q \in DOMAIN awaited : awaited[q].t = "exc"
    THEN [raised |-> TRUE, results |-> awaited]
    ELSE [raised |-> FALSE, results |-> awaited]

\* asyncio.gather(..., return_exceptions=True): an exception of a sub-query
\* is its result
gather(awaited) == [raised |-> FALSE, results |-> awaited]

\* the dashboard with the section of a sub-query left out when its result
\* is not of the expected type
dashboard_dict_dropping(user_id, r) ==
    LET full == [user_id |-> user_id,
                 projects |-> [total |-> Total(r["projects"])],
                 tasks |-> [total |-> Total(r["tasks"])],
                 activity |-> [is_online |-> Field(r["activity"], "is_online", FALSE)],
                 performance |-> [trend |-> Field(r["performance"], "trend", "stable")],
                 goals |-> [total |-> Total(r["goals"])],
                 labs |-> [total |-> Total(r["labs"])]]
        keep == {"user_id"} \cup {q \in SubQueries :
                    r[q].t = (IF q \in ListQueries THEN "list" ELSE "dict")}
    IN  [k \in keep |-> full[k]]

\* the dict get_unified_dashboard builds from the six results
dashboard_dict(user_id, r) ==
    [user_id |-> user_id,
     projects |->
        [total  |-> Total(r["projects"]),
         active |-> CountStatus(r["projects"], "active"),
         data   |-> Slice(r["projects"], 5)],
     tasks |->
        [total     |-> Total(r["tasks"]),
         completed |-> CountStatus(r["tasks"], "Done"),
         pending   |-> CountNotStatus(r["tasks"], "Done"),
         data      |-> Slice(r["tasks"], 5)],
     activity |->
        [productive_hours_today |-> Field(r["activity"], "productive_hours", 0),
         idle_hours_today       |-> Field(r["activity"], "idle_hours", 0),
         productivity_score     |-> Field(r["activity"], "productivity_score", 0),
         is_online              |-> Field(r["activity"], "is_online", FALSE)],
     performance |->
        [overall_score         |-> Field(r["performance"], "overall_score", 0),
         task_completion_rate  |-> Field(r["performance"], "task_completion_rate", 0),
         goal_achievement_rate |-> Field(r["performance"], "goal_achievement_rate", 0),
         trend                 |-> Field(r["performance"], "trend", "stable")],
     goals |->
        [total       |-> Total(r["goals"]),
         in_progress |-> CountStatus(r["goals"], "in_progress"),
         achieved    |-> CountStatus(r["goals"], "achieved"),
         data        |-> Slice(r["goals"], 3)],
     labs |->
        [total |-> Total(r["labs"]),
         data  |-> Slice(r["labs"], 5)]]

\* DashboardAggregator.get_unified_dashboard: outcome[q] is what the HTTP
\* exchange of sub-query q ends in.  The dashboard, or the exception that
\* gather raised.
get_unified_dashboard(user_id, outcome) ==
    LET awaited ==
            [q \in SubQueries |->
                CASE q = "projects"    -> AtlasClient_get_user_projects(user_id, outcome[q])
                  [] q = "tasks"       -> AtlasClient_get_user_tasks(user_id, outcome[q])
                  [] q = "activity"    -> WorkPulseClient_get_today_activity(user_id, outcome[q])
                  [] q = "performance" -> EPRClient_get_performance_score(user_id, outcome[q])
                  [] q = "goals"       -> EPRClient_get_user_goals(user_id, outcome[q])
                  [] OTHER             -> LabsClient_get_labs({}, outcome[q])]
        g == gather(awaited)
    IN  IF g.raised THEN Exc("CancelledError")
        ELSE Dict(dashboard_dict(user_id, g.results))

\* get_unified_dashboard step by step.  call holds the aggregation:
\*   pc        "created": the six coroutines exist, none has started
\*             "waiting": gather has scheduled them and is awaited
\*             "returned": the dashboard was returned
\*   launched  the sub-queries that were started
\*   outcome   how the HTTP exchange of each sub-query ended
\*   results   what each sub-query gave gather ("pending": nothing yet)
\*   order     the sub-queries in the order they settled
\*   body      what was returned (only once pc is "returned")

Pending == [t |-> "pending", v |-> <<>>]

\* the client call of a sub-query, given how its exchange ended
sub_query(q, user_id, outcome) ==
    CASE q = "projects"    -> AtlasClient_get_user_projects(user_id, outcome)
      [] q = "tasks"       -> AtlasClient_get_user_tasks(user_id, outcome)
      [] q = "activity"    -> WorkPulseClient_get_today_activity(user_id, outcome)
      [] q = "performance" -> EPRClient_get_performance_score(user_id, outcome)
      [] q = "goals"       -> EPRClient_get_user_goals(user_id, outcome)
      [] OTHER             -> LabsClient_get_labs({}, outcome)

\* lines 28-33: calling the async methods creates the coroutines
gather_create ==
    /\ call = NoCall
    /\ call' = [op |-> "get_unified_dashboard", pc |-> "created",
                user_id |-> UserIdPool[1], launched |-> {},
                outcome |-> [q \in SubQueries |-> Cancelled],
                results |-> [q \in SubQueries |-> Pending],
                order |-> <<>>]
    /\ UNCHANGED <<users, organizations, now, last, invitations, sup, backend_users>>

\* line 36: asyncio.gather wraps every coroutine in a task; the aggregator
\* is suspended on the gathering future
gather_launch ==
    /\ call # NoCall /\ call.op = "get_unified_dashboard" /\ call.pc = "created"
    /\ call' = [call EXCEPT !.pc = "waiting", !.launched = SubQueries]
    /\ UNCHANGED <<users, organizations, now, last, invitations, sup, backend_users>>

\* a started sub-query ends: its value, or its exception, is its result
settle(q, outcome) ==
    /\ call # NoCall /\ call.op = "get_unified_dashboard" /\ call.pc = "waiting"
    /\ q \in call.launched
    /\ call.results[q].t = "pending"
    /\ call' = [call EXCEPT !.outcome[q] = outcome,
                            !.results[q] = sub_query(q, call.user_id, outcome),
                            !.order = Append(@, q)]
    /\ UNCHANGED <<users, organizations, now, last, invitations, sup, backend_users>>

\* a gathering future that is done as soon as one sub-query is
gather_done_first(results) ==
    \E q \in SubQueries : results[q].t # "pending"

\* the gathering future is done when every sub-query is
gather_done(results) ==
    \A q \in SubQueries : results[q].t # "pending"

\* lines 36-96: the aggregator resumes with the six results, in the order
\* of the arguments, and returns the dashboard
gather_returns ==
    /\ call # NoCall /\ call.op = "get_unified_dashboard" /\ call.pc = "waiting"
    /\ gather_done(call.results)
    /\ call' = [op |-> call.op, pc |-> "returned", user_id |-> call.user_id,
                launched |-> call.launched, outcome |-> call.outcome,
                results |-> call.results, order |-> call.order,
                body |-> Dict(dashboard_dict(call.user_id,
                                  gather(call.results).results))]
    /\ UNCHANGED <<users, organizations, now, last, invitations, sup, backend_users>>

\* the caller has the dashboard
gather_over ==
    /\ call # NoCall /\ call.op = "get_unified_dashboard" /\ call.pc = "returned"
    /\ call' = NoCall
    /\ UNCHANGED <<users, organizations, now, last, invitations, sup, backend_users>>

-----------------------------------------------------------------------------
(* main.py: GET /api/v1/dashboard, and the proxies called on their own.    *)
(* The observation of one such call is left in the variable call.          *)

\* get_dashboard: the dashboard; any Exception becomes {"error", "status"},
\* answered 200.  CancelledError is no Exception and ends the request.
get_dashboard_response(tok, outcome, today) ==
    LET auth == get_current_user(tok, today)
        dashboard == get_unified_dashboard(Get(auth.payload, "sub"), outcome)
    IN  [op |-> "get_dashboard", token |-> tok, outcome |-> outcome,
         status |-> IF auth.status # 200 THEN auth.status
                    ELSE IF dashboard.t = "exc" THEN 500 ELSE 200,
         body   |-> IF auth.status # 200 THEN NoBody ELSE dashboard]

get_dashboard(tok, outcome) ==
    /\ call = NoCall
    /\ call' = get_dashboard_response(tok, outcome, now)
    /\ UNCHANGED <<users, organizations, now, last, invitations, sup, backend_users>>

Methods == {"get", "post", "put", "delete"}

\* the proxy method the gateway has for an HTTP method of a backend.  Atlas,
\* WorkPulse and EPR are BaseServiceClients; LabsClient has its own GET
\* methods (get_lab for one record, get_labs and the like for lists) and its
\* own POST methods (create_lab), and no PUT or DELETE.
proxy_result(service, method, endpoint, outcome) ==
    IF service # "labs"
    THEN CASE method = "get"    -> BaseServiceClient_get(service, endpoint, outcome)
           [] method = "post"   -> BaseServiceClient_post(service, endpoint, outcome)
           [] method = "put"    -> BaseServiceClient_put(service, endpoint, outcome)
           [] OTHER             -> BaseServiceClient_delete(service, endpoint, outcome)
    ELSE CASE method = "get" /\ endpoint = <<"/api/v1/labs/">>
                                -> LabsClient_get_labs({}, outcome)
           [] method = "get"    -> LabsClient_get_lab("l1", outcome)
           [] OTHER             -> LabsClient_create_lab([name |-> "lab"], outcome)

proxy_call(service, method, endpoint, outcome) ==
    /\ call = NoCall
    /\ service = "labs" => method \in {"get", "post"}
    /\ call' = [op |-> "proxy", service |-> service, method |-> method,
                endpoint |-> endpoint, outcome |-> outcome,
                result |-> proxy_result(service, method, endpoint, outcome)]
    /\ UNCHANGED <<users, organizations, now, last, invitations, sup, backend_users>>

\* a broadcast of a user to the backends, called on its own
sync_user(answers) ==
    /\ call = NoCall
    /\ call' = [op |-> "sync", answers |-> answers,
                results |-> sync_user_to_all_services(
                    [id |-> UserIdPool[1], email |-> "a@x.com", name |-> "Ann",
                     role |-> "member", organization_id |-> OrgIdPool[1]], answers)]
    /\ UNCHANGED <<users, organizations, now, last, invitations, sup, backend_users>>

(* the backends' main.py: what each does with a request before its route *)

\* SERVICE_SECRET = os.getenv("SERVICE_SECRET", "shared-secret-token")
SERVICE_SECRET == "shared-secret-token"

\* the X-Service-Token header of a request: absent, the secret, another value
ServiceTokenHeaders == {None, SERVICE_SECRET, "wrong-token"}

\* the paths of a backend: health, the root, and its user sync route
BackendPaths == {"/health", "/", "/users/sync"}

\* call_next(request): the route runs
call_next == [executed |-> TRUE, status |-> 200]

\* raise HTTPException(status_code=...): the route does not run
Rejected(code) == [executed |-> FALSE, status |-> code]

\* atlas app/api/v1/internal.py verify_service_token, the dependency of the
\* sync route: Header(...) is required (422), a wrong value is 401
verify_service_token(x_service_token) ==
    IF x_service_token = None THEN Rejected(422)
    ELSE IF x_service_token # SERVICE_SECRET THEN Rejected(401)
    ELSE call_next

\* atlas main.py validate_service_token: marks the request as a service call
\* when the token is the secret and calls the route in every case
atlas_validate_service_token(path, token) ==
    IF path \in {"/health", "/"} THEN call_next
    ELSE IF path = "/users/sync" THEN verify_service_token(token)
    ELSE call_next

\* labs and epr main.py validate_service_token
validate_service_token(path, token) ==
    IF path = "/health" THEN call_next
    ELSE IF token # SERVICE_SECRET THEN Rejected(403)
    ELSE call_next

\* workpulse main.py: the middleware is commented out, no route depends on
\* the token
workpulse_validate_service_token(path, token) == call_next

\* a request arrives at a backend
backend_request(service, path, token) ==
    /\ call = NoCall
    /\ call' = [op |-> "backend_request", service |-> service, path |-> path,
                token |-> token,
                response |-> CASE service = "atlas" ->
                                     atlas_validate_service_token(path, token)
                               [] service = "workpulse" ->
                                     workpulse_validate_service_token(path, token)
                               [] OTHER -> validate_service_token(path, token)]
    /\ UNCHANGED <<users, organizations, now, last, invitations, sup, backend_users>>

(* the identity upsert: services/user_sync.py on the gateway, the sync      *)
(* endpoint of each backend                                                *)

\* the POST each _sync_to_* sends: the path below the service url and the
\* keys of the JSON body
sync_request(service, user_data) ==
    CASE service = "atlas" ->
            [path |-> "/api/v1/internal/users/sync",
             keys |-> {"orchestrator_user_id", "email", "name", "organization_id"},
             user_id |-> user_data.id, email |-> user_data.email, name |-> user_data.name]
      [] service = "workpulse" ->
            [path |-> "/api/v1/users/sync",
             keys |-> {"orchestrator_user_id", "email", "name"},
             user_id |-> user_data.id, email |-> user_data.email, name |-> user_data.name]
      [] service = "epr" ->
            [path |-> "/api/v1/employees",
             keys |-> {"employee_id", "email", "name", "role"},
             user_id |-> user_data.id, email |-> user_data.email, name |-> user_data.name]
      [] OTHER ->
            [path |-> "/users/sync",
             keys |-> {"orchestrator_user_id", "email", "name"},
             user_id |-> user_data.id, email |-> user_data.email, name |-> user_data.name]

\* the route of each backend's sync endpoint and the required fields of its
\* request model (class UserSync)
sync_route(service) ==
    CASE service = "atlas" ->
            [path |-> "/api/v1/internal/users/sync", required |-> {"id", "email", "name"}]
      [] service = "workpulse" ->
            [path |-> "/api/v1/users/sync",
             required |-> {"orchestrator_user_id", "email", "name"}]
      [] service = "epr" ->
            [path |-> "/api/v1/employees", required |-> {"employee_id", "email", "name"}]
      [] OTHER ->
            [path |-> "/api/v1/users/sync",
             required |-> {"orchestrator_user_id", "email", "name"}]

\* sync_user of a backend: update the row of that orchestrator user id when
\* there is one, else create it
sync_user_upsert(table, request) ==
    LET existing == {r \in table : r.orchestrator_user_id = request.user_id}
        row == [orchestrator_user_id |-> request.user_id, email |-> request.email,
                name |-> request.name]
    IN  IF existing # {}
        THEN [code |-> 200, status |-> "updated", table |-> (table \ existing) \cup {row}]
        ELSE [code |-> 200, status |-> "created", table |-> table \cup {row}]

\* the backend's answer to the POST: 404 when no route has the path, 422
\* when the body lacks a required field, else the upsert
backend_sync_user(service, request, table) ==
    IF request.path # sync_route(service).path
    THEN [code |-> 404, status |-> "none", table |-> table]
    ELSE IF ~(sync_route(service).required \subseteq request.keys)
    THEN [code |-> 422, status |-> "none", table |-> table]
    ELSE sync_user_upsert(table, request)

\* the middleware of a backend for a request to one of its API routes
service_middleware(service, token) ==
    CASE service = "atlas" -> atlas_validate_service_token("/users/sync", token)
      [] service = "workpulse" -> workpulse_validate_service_token("/users/sync", token)
      [] OTHER -> validate_service_token("/users/sync", token)

\* one _sync_to_<service>(user_data) of the gateway, answered by the backend
sync_to_backend(service, user_id, name) ==
    LET user_data == [id |-> user_id, email |-> EmailOf(user_id), name |-> name]
        request == sync_request(service, user_data)
        gate == service_middleware(service, SERVICE_SECRET)
        table == backend_users[service]
        answer == IF gate.executed THEN backend_sync_user(service, request, table)
                  ELSE [code |-> gate.status, status |-> "none", table |-> table]
    IN  /\ call = NoCall
        /\ backend_users' = [backend_users EXCEPT ![service] = answer.table]
        /\ call' = [op |-> "sync_to_backend", service |-> service, user_id |-> user_id,
                    existed |-> (\E r \in table : r.orchestrator_user_id = user_id),
                    code |-> answer.code, status |-> answer.status,
                    synced |-> sync_to(service, Answered(answer.code))]
        /\ UNCHANGED <<users, organizations, now, last, invitations, sup>>

(* routers/health.py and the health_check of the clients *)

\* how GET <base_url>/health may end
HealthAnswers == {Answered(200), Answered(503), ConnectError, TimeoutError}

\* BaseServiceClient.health_check (atlas, workpulse, epr)
BaseServiceClient_health_check(answer) ==
    IF answer.kind = "answered"
    THEN (IF answer.code = 200 THEN "healthy" ELSE "unhealthy")
    ELSE "unreachable"

\* LabsClient.health_check: its own client class; an Exception is "unhealthy"
LabsClient_health_check(answer) ==
    IF answer.kind = "answered"
    THEN (IF answer.code = 200 THEN "healthy" ELSE "unhealthy")
    ELSE "unhealthy"

client_health_check(service, answer) ==
    IF service = "labs" THEN LabsClient_health_check(answer)
    ELSE BaseServiceClient_health_check(answer)

\* GET /api/v1/health: the status of each of SERVICES
health_check(answers) ==
    /\ call = NoCall
    /\ call' = [op |-> "health_check", answers |-> answers,
                orchestrator |-> "healthy",
                services |-> [s \in Services |-> client_health_check(s, answers[s])]]
    /\ UNCHANGED <<users, organizations, now, last, invitations, sup, backend_users>>

\* the caller has the answer
Return ==
    /\ call # NoCall
    /\ call' = NoCall
    /\ UNCHANGED <<users, organizations, now, last, invitations, sup, backend_users>>

\* what the backends may answer a sub-query of the dashboard with
Item(i, statuses) == [id |-> i, status |-> statuses[((i - 1) % Len(statuses)) + 1]]

Items(n, statuses) == [i \in 1..n |-> Item(i, statuses)]

ListPayloads(q) ==
    LET statuses == CASE q = "projects" -> <<"active", "archived">>
                      [] q = "tasks"    -> <<"Done", "To Do">>
                      [] q = "goals"    -> <<"in_progress", "achieved", "draft">>
                      [] OTHER          -> <<"open">>
    IN  {List(Items(2, statuses)), List(Items(MaxItems, statuses))}

ActivityPayloads ==
    {Dict([productive_hours |-> 6, idle_hours |-> 1, productivity_score |-> 85,
           is_online |-> TRUE]),
     Dict([productive_hours |-> 0, idle_hours |-> 0, productivity_score |-> 0,
           is_online |-> FALSE])}

PerformancePayloads ==
    {Dict([overall_score |-> 90, task_completion_rate |-> 75,
           goal_achievement_rate |-> 50, trend |-> "improving"]),
     Dict([overall_score |-> 0, task_completion_rate |-> 0,
           goal_achievement_rate |-> 0, trend |-> "stable"])}

Payloads(q) ==
    IF q \in ListQueries THEN ListPayloads(q)
    ELSE IF q = "activity" THEN ActivityPayloads
    ELSE PerformancePayloads

\* a backend failure as the proxy sees it
Failures == {HttpStatus(500), ConnectError, TimeoutError}

Outcomes(q) ==
    {Json(pl) : pl \in Payloads(q)} \cup {HttpStatus(500), ConnectError, Cancelled}

Endpoints == {<<"/api/v1/labs/">>, <<"/api/v1/items/", "1">>}

\* the bearer tokens GET /api/v1/dashboard is called with
DashboardTokens ==
    {jwt_encode(Claims(UserIdPool[1], "member", OrgIdPool[1], LongExp), JWT_SECRET),
     MalformedToken}

NextBackends ==
    \/ /\ call = NoCall
       /\ \E tok \in DashboardTokens,
             projects \in Outcomes("projects"), tasks \in Outcomes("tasks"),
             activity \in Outcomes("activity"), performance \in Outcomes("performance"),
             goals \in Outcomes("goals"), labs \in Outcomes("labs") :
                get_dashboard(tok, [projects |-> projects, tasks |-> tasks,
                                    activity |-> activity, performance |-> performance,
                                    goals |-> goals, labs |-> labs])
    \/ /\ call = NoCall
       /\ \E service \in Services, method \in Methods, endpoint \in Endpoints,
             outcome \in Failures \cup {Json(Dict([id |-> "1"])), Json(List(<<>>))} :
                proxy_call(service, method, endpoint, outcome)
    \/ /\ call = NoCall
       /\ \E answers \in [Services -> SyncAnswers] : sync_user(answers)
    \/ Return
    \/ /\ call = NoCall
       /\ \E service \in Services, path \in BackendPaths, token \in ServiceTokenHeaders :
             backend_request(service, path, token)
    \/ /\ call = NoCall
       /\ \E answers \in [Services -> HealthAnswers] : health_check(answers)

SpecBackends == Init /\ [][NextBackends]_vars

\* the bearer tokens the invitation handlers are called with: one for each
\* user id, and one that does not verify
InvitationTokens ==
    {jwt_encode(Claims(sub, "member", None, LongExp), JWT_SECRET) : sub \in UserIds}
        \cup {MalformedToken}

\* registration and the invitation handlers
NextInvitations ==
    \/ /\ Idle
       /\ \E e \in Emails, n \in Names, p \in Passwords, r \in {"member", "manager"},
             answers \in [Services -> {Answered(201), TimeoutError}] :
                register(e, n, p, r, answers)
    \/ /\ Idle
       /\ \E tok \in InvitationTokens, e \in Emails, org \in Orgs,
             r \in {"member", "admin"} : send_invitation(tok, e, org, r)
    \/ /\ Idle
       /\ \E tok \in InvitationTokens, id \in {"i1", "i2", "i9"},
             answers \in [Services -> {Answered(201), TimeoutError}] :
                accept_invitation(tok, id, answers)
    \/ /\ Idle
       /\ \E tok \in InvitationTokens, id \in {"i1", "i2", "i9"} :
             reject_invitation(tok, id)
    \/ Deliver

SpecInvitations == Init /\ [][NextInvitations]_vars

\* Two requests in flight.  accept_invitation and reject_invitation are
\* coroutines over their own session: each await (the select, db.get, the
\* commit) is a point where the other request runs.  call holds the position
\* of one accept and one reject request and what their sessions have loaded.
NoInFlight ==
    [pc |-> "none", token |-> NoToken, invitation_id |-> None, status |-> 0,
     user_id |-> None, organization_id |-> None, role |-> None, sync |-> NoSync]

InFlight == call.op = "invitations"

\* the position of the accept (reject) request
accept_pc == IF InFlight THEN call.accept.pc ELSE "none"
reject_pc == IF InFlight THEN call.reject.pc ELSE "none"

Requests == IF InFlight THEN call
            ELSE [op |-> "invitations", accept |-> NoInFlight, reject |-> NoInFlight]

\* the select and the three checks that follow it without an await
\* (auth.py 318-331 and 371-384): the request ends with 401, 404, 403 or 400,
\* or goes on with the invitation its session has loaded
select_invitation(tok, invitation_id) ==
    LET auth == get_current_user(tok, now)
        email == Get(auth.payload, "email")
        found == InvitationById(invitations, invitation_id)
        invitation == CHOOSE i \in found : TRUE
        r == [NoInFlight EXCEPT !.token = tok, !.invitation_id = invitation_id]
    IN  IF auth.status # 200 THEN [r EXCEPT !.pc = "done", !.status = auth.status]
        ELSE IF found = {} THEN [r EXCEPT !.pc = "done", !.status = 404]
        ELSE IF invitation.email # email THEN [r EXCEPT !.pc = "done", !.status = 403]
        ELSE IF invitation.status # "pending" THEN [r EXCEPT !.pc = "done", !.status = 400]
        ELSE [r EXCEPT !.pc = "selected", !.user_id = Get(auth.payload, "sub"),
                       !.organization_id = invitation.organization_id,
                       !.role = invitation.role]

accept_select(tok, invitation_id) ==
    /\ accept_pc = "none"
    /\ call' = [Requests EXCEPT !.accept = select_invitation(tok, invitation_id)]
    /\ UNCHANGED <<users, organizations, now, last, invitations, sup, backend_users>>

\* user = await db.get(User, user_id): None makes the next line raise
accept_get_user ==
    /\ accept_pc = "selected"
    /\ call' = [call EXCEPT !.accept =
                  IF UserById(users, call.accept.user_id) = {}
                  THEN [@ EXCEPT !.pc = "done", !.status = 500]
                  ELSE [@ EXCEPT !.pc = "loaded"]]
    /\ UNCHANGED <<users, organizations, now, last, invitations, sup, backend_users>>

\* db.commit() writes the attributes the session changed to the rows with
\* the loaded primary keys, whatever the rows hold by now
commit_status(db_invitations, invitation_id, status) ==
    {IF i.id = invitation_id THEN [i EXCEPT !.status = status] ELSE i :
        i \in db_invitations}

\* await db.commit() of accept, then the broadcast and the response
accept_commit(answers) ==
    /\ accept_pc = "loaded"
    /\ LET a == call.accept
           updated(u) == [u EXCEPT !.organization_id = a.organization_id,
                                   !.role = a.role]
       IN  /\ users' = {IF u.id = a.user_id THEN updated(u) ELSE u : u \in users}
           /\ invitations' = commit_status(invitations, a.invitation_id, "accepted")
           /\ call' = [call EXCEPT !.accept =
                         [@ EXCEPT !.pc = "done", !.status = 200,
                                   !.sync = sync_user_to_all_services(
                                       updated(CHOOSE u \in users : u.id = a.user_id),
                                       answers)]]
    /\ UNCHANGED <<organizations, now, last, sup, backend_users>>

reject_select(tok, invitation_id) ==
    /\ reject_pc = "none"
    /\ call' = [Requests EXCEPT !.reject = select_invitation(tok, invitation_id)]
    /\ UNCHANGED <<users, organizations, now, last, invitations, sup, backend_users>>

\* await db.commit() of reject, then the response
reject_commit ==
    /\ reject_pc = "selected"
    /\ invitations' = commit_status(invitations, call.reject.invitation_id, "rejected")
    /\ call' = [call EXCEPT !.reject = [@ EXCEPT !.pc = "done", !.status = 200]]
    /\ UNCHANGED <<users, organizations, now, last, sup, backend_users>>

\* no request is between two awaits
Quiescent == accept_pc \in {"none", "done"} /\ reject_pc \in {"none", "done"}

\* the responses are sent
requests_over ==
    /\ InFlight
    /\ Quiescent
    /\ call' = NoCall
    /\ UNCHANGED <<users, organizations, now, last, invitations, sup, backend_users>>


\* registration and sending as before; accept and reject as requests in
\* flight that run between each other's awaits
NextConcurrent ==
    \/ /\ Idle
       /\ \E e \in Emails, n \in Names, p \in Passwords :
             register(e, n, p, "member", [s \in Services |-> Answered(201)])
    \/ /\ Idle
       /\ \E tok \in InvitationTokens, e \in Emails, org \in Orgs :
             send_invitation(tok, e, org, "admin")
    \/ Deliver
    \/ /\ call = NoCall \/ InFlight
       /\ \E tok \in InvitationTokens, id \in {"i1", "i2", "i9"} : accept_select(tok, id)
    \/ accept_get_user
    \/ \E answers \in [Services -> {Answered(201), TimeoutError}] : accept_commit(answers)
    \/ /\ call = NoCall \/ InFlight
       /\ \E tok \in InvitationTokens, id \in {"i1", "i2", "i9"} : reject_select(tok, id)
    \/ reject_commit
    \/ requests_over

SpecConcurrent == Init /\ [][NextConcurrent]_vars

-----------------------------------------------------------------------------
(* middleware/data_isolation.py: checks that are called with the session,   *)
(* the ids and the organization; the answer is 200 when nothing is raised.  *)

\* the longest id list of a bulk check
MaxBulk == 2

\* the id lists of a bulk check: known and unknown ids, repeated or not
IdLists(ids) == UNION {[1..n -> ids] : n \in 1..MaxBulk}

\* verify_project_org_isolation: 404 for a falsy project, 403 for another
\* organization's, else the project
verify_project_org_isolation(project_id, org_id, up) ==
    LET project == AtlasClient_get_project(project_id, up) IN
    IF project.t = "dict" /\ DOMAIN project.v = {}
    THEN [status |-> 404, text |-> "Project not found"]
    ELSE IF DictGet(project, "organization_id") # org_id
    THEN [status |-> 403, text |-> "Project does not belong to this organization"]
    ELSE [status |-> 200, text |-> "project"]

\* select(User).where(User.id.in_(user_ids) & (User.organization_id == org_id))
UsersInOrg(db_users, user_ids, org_id) ==
    {u \in db_users : /\ \E i \in DOMAIN user_ids : user_ids[i] = u.id
                      /\ org_id # None
                      /\ u.organization_id = org_id}

\* verify_bulk_user_org_isolation: 400 with len(user_ids) - len(users) when
\* the two lengths differ
verify_bulk_user_org_isolation(db_users, user_ids, org_id) ==
    LET found == UsersInOrg(db_users, user_ids, org_id) IN
    IF Cardinality(found) # Len(user_ids)
    THEN [status |-> 400, count |-> Len(user_ids) - Cardinality(found),
          text |-> " user(s) do not belong to this organization"]
    ELSE [status |-> 200, count |-> 0, text |-> "users"]

\* verify_bulk_project_org_isolation: 400 at the first project that is falsy
\* or of another organization, with the id of that project
verify_bulk_project_org_isolation(project_ids, org_id, up) ==
    LET Bad(i) == LET project == AtlasClient_get_project(project_ids[i], up) IN
                  \/ (project.t = "dict" /\ DOMAIN project.v = {})
                  \/ DictGet(project, "organization_id") # org_id
        bad == {i \in DOMAIN project_ids : Bad(i)}
        first == CHOOSE i \in bad : \A j \in bad : i <= j
    IN  IF bad # {}
        THEN [status |-> 400, project_id |-> project_ids[first],
              text |-> "Project  does not belong to this organization"]
        ELSE [status |-> 200, project_id |-> None, text |-> "None"]

\* the three checks, called by a caller that holds the session
check_project(project_id, org_id, up) ==
    /\ call = NoCall /\ Idle
    /\ call' = [op |-> "verify_project_org_isolation", project_id |-> project_id,
                org_id |-> org_id, up |-> up,
                result |-> verify_project_org_isolation(project_id, org_id, up)]
    /\ UNCHANGED <<users, organizations, now, last, invitations, sup, backend_users>>

check_bulk_users(user_ids, org_id) ==
    /\ call = NoCall /\ Idle
    /\ call' = [op |-> "verify_bulk_user_org_isolation", user_ids |-> user_ids,
                org_id |-> org_id,
                result |-> verify_bulk_user_org_isolation(users, user_ids, org_id)]
    /\ UNCHANGED <<users, organizations, now, last, invitations, sup, backend_users>>

check_bulk_projects(project_ids, org_id, up) ==
    /\ call = NoCall /\ Idle
    /\ call' = [op |-> "verify_bulk_project_org_isolation", project_ids |-> project_ids,
                org_id |-> org_id, up |-> up,
                result |-> verify_bulk_project_org_isolation(project_ids, org_id, up)]
    /\ UNCHANGED <<users, organizations, now, last, invitations, sup, backend_users>>

\* the sync calls of register and accept_invitation all answered
AllSynced == [s \in Services |-> Answered(201)]

\* the checks, over the users table that registration and accepted
\* invitations fill
NextIsolation ==
    \/ /\ Idle /\ call = NoCall
       /\ \E e \in Emails, n \in Names, p \in Passwords :
             register(e, n, p, "member", AllSynced)
    \/ /\ Idle /\ call = NoCall
       /\ \E tok \in InvitationTokens \ {MalformedToken}, e \in Emails, org \in Orgs :
             send_invitation(tok, e, org, "member")
    \/ /\ Idle /\ call = NoCall
       /\ \E tok \in InvitationTokens \ {MalformedToken}, id \in {"i1", "i2"} :
             accept_invitation(tok, id, AllSynced)
    \/ Deliver
    \/ \E project_id \in ProjectIds, org_id \in Orgs, up \in BOOLEAN :
          check_project(project_id, org_id, up)
    \/ \E user_ids \in IdLists(UserIds \cup {"u9"}), org_id \in Orgs :
          check_bulk_users(user_ids, org_id)
    \/ \E project_ids \in IdLists(ProjectIds), org_id \in Orgs, up \in BOOLEAN :
          check_bulk_projects(project_ids, org_id, up)
    \/ Return

SpecIsolation == Init /\ [][NextIsolation]_vars

\* the names a user is synced with: the first, and a changed one
SyncNames == {"Ann", "Anna"}

\* the identity upserts of the gateway against the four backends
NextSync ==
    \/ /\ call = NoCall
       /\ \E service \in Services, user_id \in UserIds, name \in SyncNames :
             sync_to_backend(service, user_id, name)
    \/ Return

SpecSync == Init /\ [][NextSync]_vars

\* how the exchange of a sub-query may end: an answer, or no connection
GatherOutcomes(q) ==
    {Json(IF q \in ListQueries THEN List(Items(2, <<"active", "Done">>))
          ELSE Dict([is_online |-> TRUE, trend |-> "improving"])),
     ConnectError}

NextGather ==
    \/ gather_create
    \/ gather_launch
    \/ \E q \in SubQueries : \E outcome \in GatherOutcomes(q) : settle(q, outcome)
    \/ gather_returns
    \/ gather_over

\* the event loop resumes the aggregator once the gathering future is done
SpecGather == Init /\ [][NextGather]_vars /\ WF_vars(gather_returns)

\* the supervisor: once entered it keeps taking its own steps
SpecSupervisor == Init /\ [][NextSupervisor]_vars /\ WF_vars(SupervisorStep)

-----------------------------------------------------------------------------
(* Claims about the gateway handlers (specification Spec)                  *)

NonAdmin(o) == o.ran /\ Get(o.claims, "role") # "admin"

ProjectHandlers == {"get_project", "update_project", "create_task", "get_project_tasks"}

\* a request of a non-admin token of organization O1 for a project that is
\* not of O1 (the case of C1)
CrossOrgProjectRequest(o) ==
    /\ o.handler \in ProjectHandlers
    /\ NonAdmin(o)
    /\ Get(o.claims, "organization_id") \in Orgs
    /\ o.target \in DOMAIN AtlasProjects
    /\ o.resOrg # Get(o.claims, "organization_id")

\* C1: a request to get_project, update_project, create_task or
\* get_project_tasks with a non-admin token of organization O1, for a project
\* of another organization, is answered 403; nothing of the project is
\* returned and no write is forwarded to the project backend.
C1_CrossOrgProjectForbidden ==
    CrossOrgProjectRequest(last) =>
        /\ last.status = 403
        /\ last.forwarded = "none"
        /\ ~last.returned

\* the case of C1 happened for a write handler with a manager token
C1_Witness ==
    /\ CrossOrgProjectRequest(last)
    /\ last.handler = "update_project"
    /\ Get(last.claims, "role") = "manager"
    /\ last.resOrg \in Orgs
    /\ last.status = 403

\* the handler gave the client data of the addressed resource, or sent a
\* write for it to its backend
Accessed(o) == o.status = 200 /\ (o.returned \/ o.forwarded # "none")

IdHandlers ==
    ProjectHandlers \cup {"update_task", "get_lab", "get_lab_researchers",
                          "create_lab", "get_team_activity", "get_user_activity"}

\* C2: no handler that addresses a resource by id returns or modifies a
\* resource of an organization other than the token's, unless the token's
\* role is admin.
C2_NoCrossOrgAccess ==
    (last.handler \in IdHandlers /\ NonAdmin(last) /\ Accessed(last)
        /\ Get(last.claims, "organization_id") \in Orgs /\ last.resOrg \in Orgs)
        => last.resOrg = Get(last.claims, "organization_id")

\* C3: check_same_org lets the request through exactly when the token's
\* organization_id equals the resource's organization id or the role is
\* admin, and raises 403 in every other case; the handler then answers 403.
C3_CheckSameOrgIff ==
    last.sameOrg # 0 =>
        /\ last.sameOrg \in {200, 403}
        /\ last.sameOrg = 200 <=>
              \/ Get(last.claims, "organization_id") = last.checkedOrg
              \/ Get(last.claims, "role") = "admin"
        /\ last.sameOrg = 403 => last.status = 403

\* check_same_org let an admin through to a resource of another organization
C3_Witness ==
    /\ last.sameOrg = 200
    /\ Get(last.claims, "role") = "admin"
    /\ last.checkedOrg \in Orgs
    /\ Get(last.claims, "organization_id") \in Orgs \ {last.checkedOrg}

\* the token does not verify on that day: malformed, signed with another
\* secret, or expired
TokenInvalid(tok, today) ==
    \/ tok.form # "jws"
    \/ tok.sig # JWT_SECRET
    \/ tok.payload["exp"] < today

Presented(o) == o.handler # "none" /\ o.token.form # "none"

\* C5: a request whose token is expired, malformed or signed with a
\* different secret is answered 401; the handler behind get_current_user
\* does not run, sees no claims, returns nothing and forwards nothing.
C5_InvalidTokenUnauthorized ==
    (Presented(last) /\ TokenInvalid(last.token, now)) =>
        /\ last.status = 401
        /\ ~last.ran
        /\ last.claims = NoClaims
        /\ ~last.returned
        /\ last.forwarded = "none"

\* an admin token that was valid on day 0 is refused once it expired
C5_Witness ==
    /\ last.handler = "update_project"
    /\ last.token \in ExpiringTokens
    /\ last.token.payload["role"] = "admin"
    /\ now > last.token.payload["exp"]
    /\ last.status = 401

\* register found the email unused / login accepted the credentials
Accepted(o) == o.handler \in {"register", "login"} /\ o.status \notin {400, 401, 403}

TheUser(db_users, id) == CHOOSE u \in db_users : u.id = id

\* C4: the token the gateway issues at register or login decodes, before its
\* expiry, to the subject, role and organization id it was issued for.
C4_IssuedTokenRoundTrip ==
    Accepted(last) =>
        /\ last.issued.form = "jws"
        /\ LET d == decode_token(last.issued, now)
               u == TheUser(users, last.target)
           IN  /\ d.status = 200
               /\ Get(d.payload, "sub") = u.id
               /\ Get(d.payload, "role") = u.role
               /\ Get(d.payload, "organization_id") = u.organization_id

\* C6: registering a new email creates the user and a fresh organization
\* owned by that user, answers with a token whose organization_id is that
\* organization's id, and GET /auth/me with that token answers the same
\* organization id.
C6_RegisterIssuesOrgToken ==
    (last.handler = "register" /\ last.status # 400) =>
        /\ \E u \in users : u.email = last.email /\ u.id = last.target
                              /\ u.organization_id = last.resOrg
        /\ [id |-> last.resOrg, owner_id |-> last.target] \in organizations
        /\ last.status = 200
        /\ last.issued.form = "jws"
        /\ Get(get_current_user(last.issued, now).payload, "organization_id") = last.resOrg
        /\ DictGet(get_me_response(last.issued, now, users).body, "organization_id")
              = last.resOrg


-----------------------------------------------------------------------------
(* Claims about the dashboard and the proxies (specification SpecBackends) *)

\* an authenticated dashboard request has been answered
Aggregated == call.op = "get_dashboard" /\ call.token \in GoodTokens

\* the sub-queries of the answered request that failed / succeeded
FailedQueries == {q \in SubQueries : call.outcome[q].kind # "json"}

Succeeded(q) == call.outcome[q].kind = "json"

\* C7: the dashboard has exactly one entry for each of the six sub-queries
\* (projects, tasks, activity, performance, goals, labs), next to user_id,
\* whichever of them fail and whether a failure is an error value of the
\* proxy or an exception that the sub-query raised.
C7_OneEntryPerSubQuery ==
    Aggregated =>
        /\ call.status = 200
        /\ call.body.t = "dict"
        /\ DOMAIN call.body.v = SubQueries \cup {"user_id"}

\* a request with a sub-query that raised, one that ended in an error value
\* and one that succeeded, answered with all six entries
C7_Witness ==
    /\ Aggregated
    /\ call.outcome["projects"] = Cancelled
    /\ call.outcome["performance"] = ConnectError
    /\ call.outcome["activity"] = HttpStatus(500)
    /\ Succeeded("labs")
    /\ call.body.t = "dict"
    /\ SubQueries \subseteq DOMAIN call.body.v

\* all six sub-queries failed, three of them by raising
C7_AllFailed ==
    /\ Aggregated
    /\ FailedQueries = SubQueries
    /\ call.body.t = "dict"
    /\ DOMAIN call.body.v = SubQueries \cup {"user_id"}

\* the section of the dashboard shows the payload pl of sub-query q
ShowsPayload(section, q, pl) ==
    CASE q \in ListQueries ->
            /\ section.total = Len(pl.v)
            /\ Len(section.data) = Min(Len(pl.v), IF q = "goals" THEN 3 ELSE 5)
            /\ \A i \in DOMAIN section.data : section.data[i] = pl.v[i]
      [] q = "activity" ->
            /\ section.productive_hours_today = pl.v.productive_hours
            /\ section.idle_hours_today = pl.v.idle_hours
            /\ section.productivity_score = pl.v.productivity_score
            /\ section.is_online = pl.v.is_online
      [] OTHER ->
            /\ section.overall_score = pl.v.overall_score
            /\ section.task_completion_rate = pl.v.task_completion_rate
            /\ section.goal_achievement_rate = pl.v.goal_achievement_rate
            /\ section.trend = pl.v.trend

\* C8: whichever sub-queries of a dashboard request fail, the payload of
\* every sub-query that succeeded is returned in that sub-query's own
\* section of the answer.
C8_SuccessfulPayloadsKept ==
    Aggregated =>
        \A q \in SubQueries :
            Succeeded(q) =>
                /\ call.body.t = "dict"
                /\ q \in DOMAIN call.body.v
                /\ ShowsPayload(call.body.v[q], q, call.outcome[q].body)

\* exactly one sub-query failed, by raising, and the five others show
\* their non-empty payloads
C8_Witness ==
    /\ Aggregated
    /\ FailedQueries = {"tasks"}
    /\ call.outcome["tasks"] = Cancelled
    /\ call.body.t = "dict"
    /\ call.body.v["projects"].total = MaxItems
    /\ call.body.v["labs"].total = MaxItems
    /\ call.body.v["activity"].is_online
    /\ call.body.v["performance"].trend = "improving"

\* the performance section the dashboard has for a successful answer pl of
\* the review backend
PerformanceSectionOf(pl) ==
    dashboard_dict(UserIdPool[1],
        [q \in SubQueries |-> IF q = "performance" THEN pl ELSE List(<<>>)])["performance"]

\* C9: with the review backend down the dashboard request still succeeds
\* with its project, activity and labs sections, and its performance section
\* is none that a successful answer of the review backend gives.
C9_PerformanceFlagged ==
    (/\ Aggregated
     /\ call.outcome["performance"] \in Failures
     /\ call.outcome["goals"] \in Failures) =>
        /\ call.status = 200
        /\ \A q \in {"projects", "activity", "labs"} :
              Succeeded(q) => ShowsPayload(call.body.v[q], q, call.outcome[q].body)
        /\ \A pl \in PerformancePayloads :
              call.body.v["performance"] # PerformanceSectionOf(pl)

\* C9, the part the gateway keeps: the request succeeds and the other
\* sections are populated
C9_RestPopulated ==
    (/\ Aggregated
     /\ call.outcome["performance"] \in Failures
     /\ call.outcome["goals"] \in Failures) =>
        /\ call.status = 200
        /\ \A q \in {"projects", "activity", "labs"} :
              Succeeded(q) => ShowsPayload(call.body.v[q], q, call.outcome[q].body)

\* C10: a proxy call that meets a transport error or a non-2xx status
\* returns a dict that names the error, the service and the endpoint.
C10_TypedFailure ==
    (call.op = "proxy" /\ call.outcome \in Failures) =>
        /\ call.result.t = "dict"
        /\ {"error", "service", "endpoint"} \subseteq DOMAIN call.result.v

\* C10 for the three proxies built on BaseServiceClient
C10_BaseClientsTypedFailure ==
    (call.op = "proxy" /\ call.outcome \in Failures /\ call.service # "labs") =>
        /\ call.result.t = "dict"
        /\ {"error", "service", "endpoint"} \subseteq DOMAIN call.result.v
        /\ call.result.v.service = call.service
        /\ call.result.v.endpoint = call.endpoint

\* C10, the part every proxy keeps: a failure is returned, not raised
C10_NeverRaises ==
    (call.op = "proxy" /\ call.outcome \in Failures) => call.result.t # "exc"

-----------------------------------------------------------------------------
(* Claims about the supervisor (specification SpecSupervisor)              *)

\* the wait is probing a backend whose health endpoint fails every probe
ProbingDead == sup.pc = "waiting" /\ sup.dead

\* C11: waiting with a retry budget (3 in a direct call, the default in
\* lifespan) for a backend whose health endpoint always fails never probes
\* it more often than the budget, and ends, after exactly as many probes as
\* the budget, by raising.
C11_BudgetProbesThenEnds ==
    /\ [](sup.probes <= sup.retries)
    /\ ProbingDead ~> (/\ sup.pc # "waiting"
                       /\ sup.waited = "failed"
                       /\ sup.failed_on \in Services
                       /\ sup.probes = sup.retries)

\* a direct call with a budget of 3 ended after 3 probes of a dead backend
C11_Witness ==
    /\ sup.caller = "direct"
    /\ sup.retries = MinRetries
    /\ sup.pc = "raised"
    /\ sup.failed_on = "workpulse"
    /\ sup.probes = MinRetries

\* lifespan is between its entry and the point where it serves
StartingUp ==
    sup.caller = "lifespan" /\ sup.pc \in {"starting", "sleeping", "waiting_db", "waiting"}

\* C12: startup is fail-open: whichever backends fail to start or never
\* become healthy within the retry budget, lifespan reaches the point where
\* the gateway serves, and never aborts.
C12_StartupFailOpen ==
    /\ [](sup.pc # "aborted")
    /\ StartingUp ~> sup.pc = "serving"

\* the gateway serves although no backend was started and the wait gave up
\* on the first backend
C12_Witness ==
    /\ sup.pc = "serving"
    /\ sup.waited = "failed"
    /\ sup.failed_on = "atlas"
    /\ \A s \in Services : sup.process[s] = "none"

\* C15: after stop_all_services has returned no child process that the
\* supervisor started is still running.
C15_NoChildRunningAfterStop ==
    sup.pc = "stopped" => \A s \in Services : sup.process[s] # "running"

\* C15, the part that holds: a child that is still running after
\* stop_all_services is one whose terminate() or wait() raised an error other
\* than the timeout; an error at one child does not keep the loop from
\* stopping the others
C15_RunningOnlyAfterError ==
    sup.pc = "stopped" =>
        \A s \in Services :
            /\ sup.process[s] = "running" => sup.sent[s] \in {"none", "terminate"}
            /\ sup.process[s] = "killed" => sup.sent[s] = "kill"
            /\ sup.process[s] = "terminated" => sup.sent[s] = "terminate"

\* C16: when shutdown is complete every log file the supervisor opened for
\* a backend has been closed.
C16_LogsClosedAfterStop ==
    sup.pc = "stopped" => \A s \in Services : sup.log[s] \in {"none", "closed"}

\* C16, the part that holds: the log file of every started child is closed,
\* however stopping the child went
C16_StartedLogsClosed ==
    sup.pc = "stopped" =>
        \A s \in Services : sup.process[s] # "none" => sup.log[s] = "closed"

-----------------------------------------------------------------------------
(* Claims about the broadcast of a user to the backends                    *)

\* C13: a broadcast returns a map with exactly the four backend names, each
\* value true exactly when that backend answered the sync call with 200 or
\* 201; this for every mix of answers and transport errors of the four
\* backends, so a failure at one backend neither is raised nor keeps the
\* later backends from being called.
C13_SyncMapPerBackend ==
    call.op = "sync" =>
        /\ DOMAIN call.results = Services
        /\ \A s \in Services :
              call.results[s] <=> (/\ call.answers[s].kind = "answered"
                                   /\ call.answers[s].code \in {200, 201})

\* the first and the third backend failed, the second and the fourth were
\* still called and answered
C13_Witness ==
    /\ call.op = "sync"
    /\ call.answers["atlas"] = ConnectError
    /\ call.answers["epr"] = Answered(500)
    /\ DOMAIN call.results = Services
    /\ ~call.results["atlas"]
    /\ call.results["workpulse"]
    /\ ~call.results["epr"]
    /\ call.results["labs"]

----------------------------------------------------------------------------
\* Registration and invitations (SpecInvitations)

\* C14: a registration of an unused email and an acceptance of a pending
\* invitation by its addressee, that is every request that got as far as the
\* broadcast, is answered 200 with the token respectively the acceptance
\* result, whichever backends failed to sync.
C14_TriggeringOperationsSucceed ==
    /\ (last.handler = "register" /\ last.synced)
          => (last.status = 200 /\ last.issued # NoToken)
    /\ (last.handler = "accept_invitation" /\ last.synced)
          => (last.status = 200 /\ last.body # NoBody)

\* what register does instead: once the rows are committed and the broadcast
\* is done, the answer is 500 and no token, whatever the backends answered
C14_RegisterAnswers500 ==
    (last.handler = "register" /\ last.synced)
        => (last.status = 500 /\ last.issued = NoToken)

\* the acceptance half holds: a pending invitation accepted with a token of
\* its addressee (the token's email is the invitation's, its sub is a user)
\* is answered 200 with the organization and role, for every set of failing
\* backends
C14_AcceptByAddresseeSucceeds ==
    (last.handler = "accept_invitation" /\ last.ran)
        => IF last.status = 200
           THEN last.synced /\ last.body.t = "dict"
           ELSE LET found == InvitationById(invitations, last.target) IN
                \/ found = {}
                \/ \E i \in found : \/ i.email # Get(last.claims, "email")
                                    \/ i.status # "pending"
                \/ UserById(users, Get(last.claims, "sub")) = {}

\* an acceptance that succeeded although all four backends failed to sync
C14_AcceptedWithAllSyncsFailed ==
    /\ last.handler = "accept_invitation" /\ last.status = 200
    /\ \A s \in Services : ~last.sync[s]

\* a registration whose rows were committed, all four backends synced
C14_RegisteredAllSynced ==
    /\ last.handler = "register" /\ last.synced
    /\ \A s \in Services : last.sync[s]

----------------------------------------------------------------------------
\* The backends' service token (SpecBackends)

\* C17: a request to any of the four backends, on any path but /health,
\* without the correct X-Service-Token, is rejected: its route does not run.
C17_RouteNeedsServiceToken ==
    (/\ call.op = "backend_request"
     /\ call.path # "/health"
     /\ call.token # SERVICE_SECRET)
        => ~call.response.executed

\* labs and epr do reject such requests, and only such requests
C17_LabsAndEprReject ==
    (call.op = "backend_request" /\ call.service \in {"labs", "epr"})
        => (call.response.executed
                <=> (call.path = "/health" \/ call.token = SERVICE_SECRET))

\* a labs request without the header, off the health path, was rejected
C17_LabsRejected ==
    /\ call.op = "backend_request" /\ call.service = "labs"
    /\ call.path = "/users/sync" /\ call.token = None
    /\ ~call.response.executed

\* workpulse ran its sync route for a request without the header
C17_WorkpulseExecuted ==
    /\ call.op = "backend_request" /\ call.service = "workpulse"
    /\ call.path = "/users/sync" /\ call.token = None
    /\ call.response.executed

----------------------------------------------------------------------------
\* Upstream failures of single-backend calls (Spec)

\* the handlers that make exactly one backend call and return its result
SingleBackendHandlers ==
    {"get_projects", "get_project", "get_lab", "get_team_activity", "get_user_activity"}

\* C18: when the backend of a single-backend call could not be reached, the
\* gateway answers 502 or 500 with a body that names the origin service;
\* never 2xx, never an empty result.
C18_UpstreamFailureSurfaced ==
    (last.handler \in SingleBackendHandlers /\ last.upstream = "failed")
        => /\ last.status \in {500, 502}
           /\ last.body.t = "dict"
           /\ DictGet(last.body, "service") # None

\* what the handlers answer instead: 200 with the client's error dict or an
\* empty list, or (get_project) the 403 of the organization check
C18_FailureAnsweredAsSuccessOrForbidden ==
    (last.handler \in SingleBackendHandlers /\ last.upstream = "failed")
        => \/ /\ last.status = 200
              /\ \/ last.body = List(<<>>)
                 \/ DictGet(last.body, "error") = "ConnectError"
           \/ last.handler = "get_project" /\ last.status = 403

\* get_projects answered 200 and an empty list while Atlas was unreachable
C18_EmptyListForUnreachableAtlas ==
    /\ last.handler = "get_projects" /\ last.upstream = "failed"
    /\ last.status = 200 /\ last.body = List(<<>>)

\* get_user_activity answered 200 with the error dict of the client
C18_ErrorDictAs200 ==
    /\ last.handler = "get_user_activity" /\ last.upstream = "failed"
    /\ last.status = 200 /\ DictGet(last.body, "service") = "workpulse"

----------------------------------------------------------------------------
\* Resources that do not exist (Spec)

\* a request with a verified token for a project or lab id that its backend,
\* which answered, does not have
MissingResourceRequested ==
    /\ last.ran /\ last.upstream = "answered"
    /\ \/ last.handler = "get_project" /\ last.target \notin DOMAIN AtlasProjects
       \/ last.handler = "get_lab" /\ last.target \notin DOMAIN LabsLabs

\* C19: a request for a project or lab that does not exist in its backend is
\* answered 404 for every role and token organization, never 403, 200 or 500.
C19_MissingResourceIsNotFound ==
    MissingResourceRequested => last.status = 404

\* what is answered instead: the 404 of the backend becomes the client's
\* error dict, which get_lab returns with 200 and which get_project hands to
\* check_same_org with organization None: 403, or 200 for an admin and for a
\* token without organization
C19_MissingResourceAnswers ==
    MissingResourceRequested
        => /\ DictGet(last.body, "error") \in {None, "HTTPStatusError"}
           /\ IF last.handler = "get_lab" THEN last.status = 200
              ELSE last.status =
                     (IF Get(last.claims, "organization_id") = None
                         \/ Get(last.claims, "role") = "admin"
                      THEN 200 ELSE 403)

\* a member asked for a project that does not exist and was answered 403
C19_MissingProjectForbidden ==
    /\ MissingResourceRequested /\ last.handler = "get_project"
    /\ Get(last.claims, "role") = "member" /\ last.status = 403

\* a lab that does not exist was answered 200
C19_MissingLabOk ==
    /\ MissingResourceRequested /\ last.handler = "get_lab" /\ last.status = 200

----------------------------------------------------------------------------
\* Bulk organization checks (SpecIsolation)

\* the number of entries of an id list that are no user of the organization
UserMismatches(user_ids, org_id) ==
    Cardinality({i \in DOMAIN user_ids :
        ~\E u \in users : u.id = user_ids[i] /\ u.organization_id = org_id})

\* the number of entries of an id list that are no project of the organization
ProjectMismatches(project_ids, org_id) ==
    Cardinality({i \in DOMAIN project_ids : ProjectOrg(project_ids[i]) # org_id})

\* C20: the error of a failed bulk check depends only on the number of
\* records outside the organization: every other request with as many
\* mismatching records gets the same error, for users and projects alike.
C20_BulkErrorDependsOnCountOnly ==
    /\ (call.op = "verify_bulk_user_org_isolation" /\ call.result.status # 200)
          => \A other \in IdLists(UserIds \cup {"u9"}) :
                UserMismatches(other, call.org_id)
                      = UserMismatches(call.user_ids, call.org_id)
                   => verify_bulk_user_org_isolation(users, other, call.org_id)
                         = call.result
    /\ (call.op = "verify_bulk_project_org_isolation" /\ call.result.status # 200)
          => \A other \in IdLists(ProjectIds) :
                ProjectMismatches(other, call.org_id)
                      = ProjectMismatches(call.project_ids, call.org_id)
                   => verify_bulk_project_org_isolation(other, call.org_id, call.up)
                         = call.result

\* an id list without repetitions
Distinct(ids) == \A i, j \in DOMAIN ids : ids[i] = ids[j] => i = j

\* the user half holds for id lists without repetitions: the error carries
\* the number of mismatching entries and nothing else
C20_UserErrorIsTheCount ==
    (/\ call.op = "verify_bulk_user_org_isolation"
     /\ Distinct(call.user_ids))
        => /\ call.result.count = UserMismatches(call.user_ids, call.org_id)
           /\ call.result.status = (IF call.result.count = 0 THEN 200 ELSE 400)

\* and two failing user checks without repetitions and with as many
\* mismatching entries get the same error
C20_UserErrorSameForSameCount ==
    (/\ call.op = "verify_bulk_user_org_isolation"
     /\ call.result.status # 200
     /\ Distinct(call.user_ids))
        => \A other \in IdLists(UserIds \cup {"u9"}) :
              (/\ Distinct(other)
               /\ UserMismatches(other, call.org_id)
                     = UserMismatches(call.user_ids, call.org_id))
                 => verify_bulk_user_org_isolation(users, other, call.org_id)
                       = call.result

\* with a repeated id the count reported is not the number of mismatches:
\* the same user given twice is reported as one user outside
C20_RepeatedUserCounted ==
    /\ call.op = "verify_bulk_user_org_isolation"
    /\ UserMismatches(call.user_ids, call.org_id) = 0
    /\ call.result.status = 400 /\ call.result.count = 1

\* the project error names the first mismatching project
C20_ProjectErrorNamesTheProject ==
    (call.op = "verify_bulk_project_org_isolation" /\ call.up)
        => IF ProjectMismatches(call.project_ids, call.org_id) = 0
           THEN call.result.status = 200
           ELSE /\ call.result.status = 400
                /\ ProjectOrg(call.result.project_id) # call.org_id
                /\ \E i \in DOMAIN call.project_ids :
                      call.project_ids[i] = call.result.project_id

\* a bulk user check that failed for two users of which one is of another
\* organization, while the other is a member by an accepted invitation
C20_BulkUsersFailedForOne ==
    /\ call.op = "verify_bulk_user_org_isolation"
    /\ Len(call.user_ids) = 2 /\ Distinct(call.user_ids)
    /\ call.result.status = 400 /\ call.result.count = 1

\* a bulk user check that passed for two users of one organization
C20_BulkUsersPassedForTwo ==
    /\ call.op = "verify_bulk_user_org_isolation"
    /\ Len(call.user_ids) = 2 /\ Distinct(call.user_ids)
    /\ call.result.status = 200

\* a bulk project check that failed for one project of another organization
C20_BulkProjectsFailedForOne ==
    /\ call.op = "verify_bulk_project_org_isolation" /\ call.up
    /\ call.result.status = 400
    /\ ProjectMismatches(call.project_ids, call.org_id) = 1

----------------------------------------------------------------------------
\* The identity upsert against the backends (SpecSync)

\* the user records a backend holds for the id of the last upsert
RecordsOfSyncedUser ==
    {r \in backend_users[call.service] : r.orchestrator_user_id = call.user_id}

\* C21: every backend accepts the gateway's upsert: the first call for an
\* orchestrator user id answers created, a repeated call answers updated,
\* and afterwards exactly one user record exists for that id.
C21_UpsertAcceptedByEveryBackend ==
    call.op = "sync_to_backend"
        => /\ call.synced
           /\ call.status = (IF call.existed THEN "updated" ELSE "created")
           /\ Cardinality(RecordsOfSyncedUser) = 1

\* WorkPulse does so
C21_WorkpulseUpserts ==
    (call.op = "sync_to_backend" /\ call.service = "workpulse")
        => /\ call.synced
           /\ call.status = (IF call.existed THEN "updated" ELSE "created")
           /\ Cardinality(RecordsOfSyncedUser) = 1

\* Atlas answers 422 (its UserSync requires "id", the gateway sends
\* "orchestrator_user_id") and Labs 404 (its route is /api/v1/users/sync,
\* the gateway posts to /users/sync): neither ever holds a record
C21_AtlasAndLabsRefuse ==
    /\ backend_users["atlas"] = {} /\ backend_users["labs"] = {}
    /\ (call.op = "sync_to_backend" /\ call.service = "atlas")
          => (call.code = 422 /\ ~call.synced)
    /\ (call.op = "sync_to_backend" /\ call.service = "labs")
          => (call.code = 404 /\ ~call.synced)

\* a repeated upsert to WorkPulse was answered updated
C21_WorkpulseUpdated ==
    /\ call.op = "sync_to_backend" /\ call.service = "workpulse"
    /\ call.existed /\ call.status = "updated"

----------------------------------------------------------------------------
\* The aggregation step by step (SpecGather)

Aggregating == call # NoCall /\ call.op = "get_unified_dashboard"

AllSettled == Aggregating /\ \A q \in SubQueries : call.results[q].t # "pending"

----------------------------------------------------------------------------
\* The health report (SpecBackends)

\* what the probe of a backend is to be classified as
HealthClass(answer) ==
    IF answer = Answered(200) THEN "healthy"
    ELSE IF answer.kind = "answered" THEN "unhealthy"
    ELSE "unreachable"

\* C23: the health report lists all four backends, each healthy exactly
\* when its liveness path answered 200, unhealthy for any other status and
\* unreachable when the probe failed at transport level.
C23_HealthClassified ==
    call.op = "health_check"
        => /\ DOMAIN call.services = Services
           /\ \A s \in Services : call.services[s] = HealthClass(call.answers[s])

\* it holds for the three backends behind BaseServiceClient
C23_BaseClientsClassified ==
    call.op = "health_check"
        => /\ DOMAIN call.services = Services
           /\ \A s \in Services \ {"labs"} :
                 call.services[s] = HealthClass(call.answers[s])

\* Labs is never reported unreachable: a probe that times out or finds no
\* connection reports it unhealthy
C23_LabsNeverUnreachable ==
    call.op = "health_check"
        => call.services["labs"] =
              (IF call.answers["labs"] = Answered(200) THEN "healthy" ELSE "unhealthy")

\* a report with Labs unhealthy after a timeout and Atlas unreachable
C23_LabsTimeoutUnhealthy ==
    /\ call.op = "health_check"
    /\ call.answers["labs"] = TimeoutError /\ call.services["labs"] = "unhealthy"
    /\ call.answers["atlas"] = ConnectError /\ call.services["atlas"] = "unreachable"

----------------------------------------------------------------------------
\* The life of a managed backend (SpecSupervisor)

\* the backend was launched: start_service created its child process
Launched(s) == sup.process[s] # "none"

\* the backend is stopped: its child has exited, was terminated or killed
Stopped(s) == sup.process[s] \in {"exited", "terminated", "killed"}

\* C24: a backend is stopped only after it was launched, lifespan probes
\* the backends only after start_all_services has gone through all of them,
\* and every backend that was launched is Stopped when shutdown completes.
C24_BackendLifecycle ==
    /\ \A s \in Services : sup.sent[s] # "none" => Launched(s)
    /\ (sup.caller = "lifespan" /\ sup.probes > 0) => sup.pc \notin {"boot", "starting"}
    /\ sup.pc = "stopped" => \A s \in Services : Launched(s) => Stopped(s)

\* the parts that hold: only launched backends are sent a signal, probing
\* starts after the launches, and a backend that is not Stopped at the end
\* is one whose terminate() or wait() raised
C24_OrderHolds ==
    /\ \A s \in Services : sup.sent[s] # "none" => Launched(s)
    /\ (sup.caller = "lifespan" /\ sup.probes > 0) => sup.pc \notin {"boot", "starting"}
    /\ sup.pc = "stopped" =>
          \A s \in Services :
              (Launched(s) /\ ~Stopped(s)) => sup.sent[s] \in {"none", "terminate"}

\* a failure to launch atlas did not keep labs from being launched
C24_LaterBackendLaunched ==
    /\ sup.caller = "lifespan" /\ sup.pc = "serving"
    /\ ~Launched("atlas") /\ Launched("labs")

\* shutdown completed with a launched backend that is still running
C24_LaunchedNotStopped ==
    /\ sup.pc = "stopped"
    /\ \E s \in Services : Launched(s) /\ ~Stopped(s)

----------------------------------------------------------------------------
\* Self-registration and the admin bypass (Spec)

\* the request's token is the one of a registered user: its sub, role and
\* organization are those of the user's row, as login passes them to
\* create_user_token.  Every user of this specification registered himself.
TokenOfRegisteredUser(o) ==
    \E u \in users : /\ u.id = Get(o.claims, "sub")
                     /\ u.role = Get(o.claims, "role")
                     /\ u.organization_id = Get(o.claims, "organization_id")

C25_NonAdminStaysInOwnOrg ==
    (/\ last.handler \in ProjectHandlers
     /\ last.ran
     /\ TokenOfRegisteredUser(last)
     /\ Get(last.claims, "role") # "admin"
     /\ last.resOrg \in Orgs
     /\ last.resOrg # Get(last.claims, "organization_id"))
        => (~Accessed(last) /\ last.status = 403)

\* register stored the role "admin" the client asked for
C25_AdminSelfRegistered ==
    /\ last.handler = "register" /\ last.synced
    /\ \E u \in users : u.id = last.target /\ u.role = "admin"

\* a self-registered admin wrote to a project of the other organization
C25_SelfRegisteredAdminWrote ==
    /\ last.handler = "update_project" /\ TokenOfRegisteredUser(last)
    /\ last.resOrg \in Orgs /\ last.resOrg # Get(last.claims, "organization_id")
    /\ last.forwarded = "update_project"

----------------------------------------------------------------------------
\* Concurrent accept and reject of one invitation (SpecConcurrent)

\* the accept request changed the invitee and answered 200
AcceptChangedInvitee ==
    IF ~InFlight THEN FALSE
    ELSE /\ call.accept.pc = "done" /\ call.accept.status = 200
         /\ \E u \in users : /\ u.id = call.accept.user_id
                             /\ u.organization_id = call.accept.organization_id
                             /\ u.role = call.accept.role

\* C26: once no request is between two awaits, an invitation whose
\* acceptance changed the invitee's organization and role is accepted.
C26_ChangedOnlyIfFinallyAccepted ==
    (AcceptChangedInvitee /\ Quiescent)
        => \A i \in InvitationById(invitations, call.accept.invitation_id) :
              i.status = "accepted"

\* an accept that runs with no reject between its select and its commit
\* leaves the invitation accepted at its commit
C26_AcceptAloneIsConsistent ==
    (AcceptChangedInvitee /\ reject_pc = "none")
        => \A i \in InvitationById(invitations, call.accept.invitation_id) :
              i.status = "accepted"

\* both requests selected the pending invitation, accept committed, reject
\* committed after it: both answered 200 and the invitation is rejected
C26_RejectedAfterAcceptance ==
    /\ AcceptChangedInvitee
    /\ call.reject.pc = "done" /\ call.reject.status = 200
    /\ call.reject.invitation_id = call.accept.invitation_id
    /\ \E i \in InvitationById(invitations, call.accept.invitation_id) :
          i.status = "rejected"

----------------------------------------------------------------------------
\* Registration that ends without a token (Spec)

\* register went past its commits and answered without a token
RegisterFailedAfterCommit ==
    last.handler = "register" /\ last.synced /\ last.issued = NoToken

\* C27: when register answers without a token after its first commit, no
\* user row and no organization row of that registration remain.
C27_FailedRegisterLeavesNothing ==
    RegisterFailedAfterCommit
        => /\ UserByEmail(users, last.email) = {}
           /\ \A g \in organizations : g.owner_id # last.target

\* between two requests every registered user owns an organization
C27_UserOwnsAnOrganization ==
    \A u \in users : \E g \in organizations : g.owner_id = u.id

\* register answered 500 and the user row with its organization stayed
C27_RowsStayAfterFailure ==
    /\ RegisterFailedAfterCommit /\ last.status = 500
    /\ \E u \in UserByEmail(users, last.email) :
          /\ u.id = last.target
          /\ [id |-> u.organization_id, owner_id |-> u.id] \in organizations

\* the same email is refused when registered again
C27_SameEmailRefused ==
    /\ last.handler = "register" /\ last.status = 400
    /\ UserByEmail(users, last.email) # {}

----------------------------------------------------------------------------
\* Tokens without organization_id at the same-organization check (Spec)

\* a project handler ran for a non-admin token that carries no organization_id
NoOrgProjectRequest ==
    /\ last.handler \in ProjectHandlers
    /\ NonAdmin(last)
    /\ Get(last.claims, "organization_id") = None

\* C28: for a non-admin token without organization_id the same-organization
\* check of a project handler never passes and the handler returns no
\* project and forwards no write.
C28_NoOrgTokenNeverGranted ==
    NoOrgProjectRequest => (last.sameOrg # 200 /\ ~Accessed(last))

\* it holds when the project has an organization
C28_RefusedForOwnedProject ==
    (NoOrgProjectRequest /\ last.checkedOrg \in Orgs)
        => (last.status = 403 /\ ~Accessed(last))

\* the project without organization was written for a token without one
C28_OrglessProjectWritten ==
    /\ NoOrgProjectRequest /\ last.target = "p3" /\ last.checkedOrg = None
    /\ last.sameOrg = 200 /\ last.forwarded = "update_project"

\* the proxy's failure value passed the check for a token without organization
C28_FailureValuePassed ==
    /\ NoOrgProjectRequest /\ last.handler = "get_project"
    /\ last.target = "p1" /\ last.upstream = "failed"
    /\ last.sameOrg = 200 /\ last.status = 200

----------------------------------------------------------------------------
\* Task assignment across organizations (Spec)

\* create_task ran for a project that has an organization, with an assignee
\* who is not a user of that organization
OutsideAssignee ==
    /\ last.handler = "create_task" /\ last.ran
    /\ last.resOrg \in Orgs
    /\ last.assignee # None
    /\ ~validate_user_in_organization(last.assignee, last.resOrg, users)

\* the caller passed the checks that come before the assignment is looked
\* at: the role check of create_task and its same-organization check
PassedCallerChecks ==
    Get(last.claims, "role") \in {"admin", "manager"} /\ last.sameOrg = 200

----------------------------------------------------------------------------
\* The life of an invitation (SpecConcurrent, SpecInvitations)

\* the status of invitation i is changed by the step
StatusChanged(i) ==
    \E j \in invitations' : j.id = i.id /\ j.status # i.status

NewStatus(i) == (CHOOSE j \in invitations' : j.id = i.id).status

TokenEmail(tok) == Get(get_current_user(tok, now).payload, "email")

\* the step is the commit of a request for invitation i whose token carries
\* the invitation's email
CommitByAddressee(i) ==
    \/ /\ accept_pc = "loaded" /\ accept_pc' = "done"
       /\ call.accept.invitation_id = i.id
       /\ TokenEmail(call.accept.token) = i.email
       /\ NewStatus(i) = "accepted"
    \/ /\ reject_pc = "selected" /\ reject_pc' = "done"
       /\ call.reject.invitation_id = i.id
       /\ TokenEmail(call.reject.token) = i.email
       /\ NewStatus(i) = "rejected"

\* C30: the status of an invitation changes only from pending, only to
\* accepted or rejected, and only by a request whose token email is the
\* invitation's; an invitation that left pending never changes again.
C30_StatusOnlyLeavesPending ==
    [][\A i \in invitations :
          StatusChanged(i) => (i.status = "pending" /\ CommitByAddressee(i))]_vars

\* every change of status is the commit of a request of the addressee
C30_OnlyAddresseeChanges ==
    [][\A i \in invitations : StatusChanged(i) => CommitByAddressee(i)]_vars

\* with one request served at a time: the status changes only from pending,
\* by accept_invitation or reject_invitation answered 200 to the addressee
C30_OneAtATimeOnlyLeavesPending ==
    [][\A i \in invitations :
          StatusChanged(i)
              => /\ i.status = "pending"
                 /\ last'.status = 200 /\ last'.target = i.id /\ last'.email = i.email
                 /\ \/ last'.handler = "accept_invitation" /\ NewStatus(i) = "accepted"
                    \/ last'.handler = "reject_invitation" /\ NewStatus(i) = "rejected"]_vars

\* an accepted invitation is about to be overwritten by the commit of a
\* reject request that selected it while it was pending
C30_AcceptedAboutToBeRejected ==
    /\ reject_pc = "selected"
    /\ \E i \in InvitationById(invitations, call.reject.invitation_id) :
          i.status = "accepted"

=============================================================================
